---- MODULE Spec2Model ----
(***************************************************************************)
(* Model of the hook execution runtime of xrpld-hooks                      *)
(* (src/ripple/app/tx/impl/applyHook.cpp): the per-invocation HookContext, *)
(* the host functions the guest calls, hook::apply, setHookState and       *)
(* commitChangesToLedger, over a small ledger view.                        *)
(***************************************************************************)
EXTENDS Integers, Sequences, FiniteSets, TLC

(***************************************************************************)
(* Return codes of the host-call ABI (hook_api::hook_return_code), the     *)
(* exit types and the limits of the hook_api namespace.                    *)
(***************************************************************************)
OUT_OF_BOUNDS == -1
INTERNAL_ERROR == -2
TOO_BIG == -3
TOO_SMALL == -4
DOESNT_EXIST == -5
INVALID_ARGUMENT == -7
INVALID_ACCOUNT == -15
ALREADY_SET == -8
PREREQUISITE_NOT_MET == -9
FEE_TOO_LARGE == -10
EMISSION_FAILURE == -11
TOO_MANY_NONCES == -12
TOO_MANY_EMITTED_TXN == -13
GUARD_VIOLATION == -16
RC_ROLLBACK == -19
RC_ACCEPT == -20

ACCEPT == "ACCEPT"
ROLLBACK == "ROLLBACK"
WASM_ERROR == "WASM_ERROR"

max_emit == 255
max_nonce == 255
drops_per_byte == 2

cclAPPLY == 1
cclREMOVE == 2

\* hook::maxHookStateDataSize: the value sethook stores in sfHookStateDataMaxSize
maxHookStateDataSize == 128

\* width of a state key (make_state_key pads to 32 bytes)
KeyWidth == 32

(***************************************************************************)
(* Bounds of the model.                                                    *)
(***************************************************************************)
\* guest memory: memoryCtx.getDataPageSize() * kPageSize, one page here
MemoryLength == 65536
\* the runs (hook::apply calls) of one behaviour
MaxRuns == 2
\* the emit calls that may succeed in one run (the queue's length in the model)
MaxQueue == 2
\* the nonce calls of one run
MaxNonces == 2
\* the largest iteration limit a guard call passes
MaxGuardIter == 2

(***************************************************************************)
(* Pure helpers.                                                           *)
(***************************************************************************)
Min(a, b) == IF a < b THEN a ELSE b

\* NOT_IN_BOUNDS(ptr, len, memory_length); ptr and len are uint32, the sum
\* is taken in 64 bits and cannot wrap
NOT_IN_BOUNDS(ptr, len, memory_length) ==
    \/ ptr > memory_length
    \/ ptr + len > memory_length

\* make_state_key: left-zero-pad to 32 bytes; <<>> stands for std::nullopt
make_state_key(source) ==
    IF Len(source) > KeyWidth \/ Len(source) < 1
    THEN << >>
    ELSE [i \in 1..KeyWidth |->
            IF i <= KeyWidth - Len(source) THEN 0
            ELSE source[i - (KeyWidth - Len(source))]]

RECURSIVE BigEndian(_)
BigEndian(bytes) ==
    IF Len(bytes) = 0 THEN 0
    ELSE 256 * BigEndian(SubSeq(bytes, 1, Len(bytes) - 1)) + bytes[Len(bytes)]

\* data_as_int64: at most 8 bytes read big-endian; a set high bit is TOO_BIG
data_as_int64(bytes) ==
    IF Len(bytes) > 8 THEN TOO_BIG
    ELSE IF Len(bytes) = 8 /\ bytes[1] >= 128 THEN TOO_BIG
    ELSE BigEndian(bytes)

\* COMPUTE_HOOK_DATA_OWNER_COUNT: ceil(state_count / 5)
COMPUTE_HOOK_DATA_OWNER_COUNT(state_count) == (state_count + 4) \div 5

\* WRITE_WASM_MEMORY_AND_RETURN: the bytes that reach guest memory and the
\* value returned, as [ret, out]
WRITE_WASM_MEMORY_AND_RETURN(guest_dst_ptr, guest_dst_len, host_src, memory_length) ==
    LET bytes_to_write == Min(Len(host_src), guest_dst_len)
    IN  IF guest_dst_ptr + bytes_to_write > memory_length
        THEN [ret |-> OUT_OF_BOUNDS, out |-> << >>]
        ELSE [ret |-> bytes_to_write, out |-> SubSeq(host_src, 1, bytes_to_write)]

(***************************************************************************)
(* The ledger view behind ApplyContext, as far as the runtime uses it.     *)
(***************************************************************************)
\* view.fees().accountReserve(ownerCount), in XRP
ReserveBase == 20
ReserveInc == 5
accountReserve(count) == ReserveBase + count * ReserveInc

\* entries a directory holds before dirAdd / dirAppend report it full
OwnerDirCap == 3
EmittedDirCap == 2

\* view.fees().base.drops() and the validated ledger index
FeeBaseDrops == 10
ValidLedgerIndex == 10

\* length, in bytes, of the serialized transactions the guest hands to emit
TxLen == 100

\* keys and values the guest passes; <<1>> and <<0, 1>> pad to the same key
TooLongValue == [i \in 1..(maxHookStateDataSize + 1) |-> 0]
LongKey == [i \in 1..(KeyWidth + 1) |-> 1]
KeyInputs == { <<1>>, <<0, 1>>, <<2>>, << >>, LongKey }
ValueInputs == { << >>, <<1, 2>>, TooLongValue }
K1 == make_state_key(<<1>>)
K2 == make_state_key(<<2>>)
K3 == make_state_key(<<3>>)

\* guest pointers: null, inside the memory, 16 bytes before its end, past it
InPtr == 1024
NearEndPtr == MemoryLength - 16
OobPtr == MemoryLength + 1
Pointers == {0, InPtr, NearEndPtr, OobPtr}

\* state of a foreign account, read by state_foreign
ForeignStates == (K1 :> <<9>>)

VARIABLES
    \* ledger view (ApplyContext)
    hookStates,        \* ltHOOK_STATE entries of the account: key -> data
    hookStateCount,    \* sfHookStateCount of the hook object
    ownerCount,        \* sfOwnerCount of the account root
    ownerDir,          \* hook-state keys in the owner directory
    ownerDirOther,     \* other entries of the owner directory
    balance,           \* sfBalance of the account root, in XRP
    emittedDir,        \* ids in the emitted directory (ltEMITTED entries)
    viewOpen,          \* applyCtx.view().open()
    hookMeta,          \* execution-metadata records of the ApplyViewImpl
    otxn,              \* applyCtx.tx, the originating transaction
    \* HookContext
    changedState,      \* result.changedState: key -> [dirty, data]
    expected_etxn_count,
    emittedTxn,        \* result.emittedTxn, a FIFO
    nonce_counter,
    nonce_used,
    fee_base,          \* hookCtx.fee_base
    guard_map,
    slot,              \* hookCtx.slot: slot id -> SlotEntry
    slot_counter,
    slot_free,         \* hookCtx.slot_free, a FIFO of slot ids
    exitType,
    exitCode,
    exitReason,
    instructionCount,
    callback,          \* the run executes cbak
    pc,                \* position in hook::apply and its caller
    runs,
    \* observation of the last step
    lastCall,          \* the host call just made: name, arguments, result
    lastCommit,        \* the commitChangesToLedger call just made
    staged,            \* key -> value of the last accepted state_set of the run
    gcalls,            \* guard id -> number of _g calls of the run
    persisted,         \* key -> value the last accepted run staged and committed
    acceptDone         \* an accept call of the run returned RC_ACCEPT

ledgerVars == <<hookStates, hookStateCount, ownerCount, ownerDir, ownerDirOther,
                balance, emittedDir, viewOpen, hookMeta, otxn>>
stateVars == <<changedState, staged>>
\* persisted is written by the commit only
emitVars == <<expected_etxn_count, emittedTxn, nonce_counter, nonce_used, fee_base>>
exitVars == <<exitType, exitCode, exitReason, acceptDone>>
runVars == <<instructionCount, callback, pc, runs>>
guardVars == <<guard_map, gcalls>>
slotVars == <<slot, slot_counter, slot_free>>
vars == <<ledgerVars, stateVars, emitVars, guardVars, slotVars, exitVars, runVars,
          lastCall, lastCommit, persisted>>

EmptyMap == << >>
Put(f, k, v) == [x \in (DOMAIN f) \cup {k} |-> IF x = k THEN v ELSE f[x]]
Drop(f, k) == [x \in (DOMAIN f) \ {k} |-> f[x]]

NoCall == [fn |-> "none", ret |-> 0, key |-> << >>, out |-> << >>, a |-> 0, b |-> 0]
Call(fn, ret, key, out, a, b) ==
    [fn |-> fn, ret |-> ret, key |-> key, out |-> out, a |-> a, b |-> b]
NoCommit == [mode |-> 0, metaBefore |-> 0, statesBefore |-> EmptyMap,
             emittedBefore |-> {}, queueBefore |-> << >>, cacheBefore |-> EmptyMap,
             setCalls |-> << >>, done |-> FALSE]

(***************************************************************************)
(* Transactions.  A transaction is the record of the fields the runtime    *)
(* inspects; id stands for getTransactionID(), the hash of its bytes.      *)
(***************************************************************************)
HookAccount == "hook"
OtherAccount == "other"

BaseTx == [id |-> <<0>>, parse |-> TRUE, has_seq |-> TRUE, seq |-> 0, spk |-> "zero33",
           has_ed |-> FALSE, ed_complete |-> FALSE, gen |-> 0, bur |-> 0,
           ptxn |-> <<0>>, nonce |-> -1, cb |-> OtherAccount, has_sig |-> FALSE,
           has_lls |-> TRUE, lls |-> ValidLedgerIndex + 5,
           has_fls |-> TRUE, fls |-> ValidLedgerIndex + 2,
           has_fee |-> TRUE, fee |-> 0, is_new |-> TRUE, len |-> TxLen]

\* an ordinary originating transaction, and one that a hook emitted earlier
PlainOtxn == [BaseTx EXCEPT !.id = <<1>>, !.has_sig = TRUE, !.seq = 7, !.fee = 12]
EmittedOtxn == [BaseTx EXCEPT !.id = <<2>>, !.has_ed = TRUE, !.ed_complete = TRUE,
                              !.gen = 1, !.bur = 2, !.cb = HookAccount]

\* otxn_burden: 1 unless the originating transaction carries sfEmitBurden
\* (hookCtx.burden caches the same value)
otxn_burden(tx) ==
    IF ~tx.has_ed THEN 1
    ELSE IF ~tx.ed_complete THEN 1
    ELSE tx.bur

\* otxn_generation (hookCtx.generation caches the same value)
otxn_generation(tx) ==
    IF ~tx.has_ed THEN 1
    ELSE IF ~tx.ed_complete THEN 1
    ELSE tx.gen + 1

etxn_generation(tx) == otxn_generation(tx) + 1

etxn_burden(expected, tx) ==
    IF expected <= -1 THEN PREREQUISITE_NOT_MET
    ELSE otxn_burden(tx) * expected

\* fee_base(): (int64_t)((double) base drops * fee_base_multiplier), multiplier 1.1
fee_base_host == (FeeBaseDrops * 11) \div 10

\* etxn_fee_base: [ret, fee_base], fee_base the new value of hookCtx.fee_base
etxn_fee_base_calc(expected, tx, cached, tx_byte_count) ==
    IF expected <= -1 THEN [ret |-> PREREQUISITE_NOT_MET, fee_base |-> cached]
    ELSE IF etxn_burden(expected, tx) < 1 THEN [ret |-> FEE_TOO_LARGE, fee_base |-> cached]
    ELSE LET fee == fee_base_host * etxn_burden(expected, tx)
         IN  [ret |-> fee * drops_per_byte * tx_byte_count, fee_base |-> fee]

(***************************************************************************)
(* hook::apply, lines 513-531: the HookContext of a fresh run.             *)
(***************************************************************************)
\* the exit type of a run whose entry point returns without a verdict, were
\* it ACCEPT for both entry points
DefaultExitType_Accept(isCallback) == ACCEPT

\* the same, were it ACCEPT for cbak and ROLLBACK for hook
DefaultExitType_CbakAccepts(isCallback) == IF isCallback THEN ACCEPT ELSE ROLLBACK

\* line 527: .exitType = ROLLBACK, whatever the entry point
DefaultExitType(isCallback) == ROLLBACK

\* expected_etxn_count of a new HookContext (its declaration's initialiser)
UnsetEtxnCount == -1

\* the first id the slot counter hands out
FirstSlot == 1

FreshContext(isCallback) ==
    /\ changedState' = EmptyMap
    /\ staged' = EmptyMap
    /\ expected_etxn_count' = UnsetEtxnCount
    /\ emittedTxn' = << >>
    /\ nonce_counter' = 0
    /\ nonce_used' = {}
    /\ fee_base' = 0
    /\ guard_map' = EmptyMap
    /\ gcalls' = EmptyMap
    /\ slot' = EmptyMap
    /\ slot_counter' = FirstSlot
    /\ slot_free' = << >>
    /\ exitType' = DefaultExitType(isCallback)
    /\ exitCode' = -1
    /\ exitReason' = << >>
    /\ acceptDone' = FALSE
    /\ instructionCount' = 0
    /\ callback' = isCallback
    /\ pc' = "running"
    /\ lastCall' = NoCall
    /\ lastCommit' = NoCommit

Init ==
    /\ hookStates \in {EmptyMap, (K1 :> <<7>>)}
    /\ hookStateCount = Cardinality(DOMAIN hookStates)
    /\ ownerDir = DOMAIN hookStates
    /\ ownerDirOther \in {0, 1}
    /\ ownerCount = COMPUTE_HOOK_DATA_OWNER_COUNT(hookStateCount) + ownerDirOther
    /\ balance \in {accountReserve(ownerCount), accountReserve(ownerCount + 1)}
    /\ otxn \in {PlainOtxn, EmittedOtxn}
    /\ emittedDir \in {{}} \cup (IF otxn.has_ed THEN {{otxn.id}} ELSE {})
    /\ viewOpen \in BOOLEAN
    /\ hookMeta = << >>
    /\ changedState = EmptyMap
    /\ staged = EmptyMap
    /\ expected_etxn_count = UnsetEtxnCount
    /\ emittedTxn = << >>
    /\ nonce_counter = 0
    /\ nonce_used = {}
    /\ fee_base = 0
    /\ guard_map = EmptyMap
    /\ gcalls = EmptyMap
    /\ slot = EmptyMap
    /\ slot_counter = FirstSlot
    /\ slot_free = << >>
    /\ callback \in BOOLEAN
    /\ exitType = DefaultExitType(callback)
    /\ exitCode = -1
    /\ exitReason = << >>
    /\ acceptDone = FALSE
    /\ instructionCount = 0
    /\ pc = "running"
    /\ runs = 1
    /\ lastCall = NoCall
    /\ lastCommit = NoCommit
    /\ persisted = EmptyMap

(***************************************************************************)
(* state_set and state / state_foreign.                                    *)
(***************************************************************************)
\* a state_set that would keep an entry already cached (std::map::emplace)
StageWrite_KeepCached(cache, key, data) ==
    IF key \in DOMAIN cache THEN cache
    ELSE Put(cache, key, [dirty |-> TRUE, data |-> data])

\* the cache after state_set stored the value: operator[] overwrites
StageWrite(cache, key, data) == Put(cache, key, [dirty |-> TRUE, data |-> data])

\* state_set's return value; key and data are the bytes at the two pointers
state_set_ret(read_ptr, data, kread_ptr, key) ==
    IF NOT_IN_BOUNDS(kread_ptr, 32, MemoryLength) THEN OUT_OF_BOUNDS
    ELSE IF ~(read_ptr = 0 /\ Len(data) = 0)
            /\ NOT_IN_BOUNDS(read_ptr, Len(data), MemoryLength) THEN OUT_OF_BOUNDS
    ELSE IF Len(key) > 32 THEN TOO_BIG
    ELSE IF Len(key) < 1 THEN TOO_SMALL
    ELSE IF Len(data) > maxHookStateDataSize THEN TOO_BIG
    ELSE Len(data)

\* a state_set that would write the value through to the ledger's entries
state_set_WriteThrough(read_ptr, data, kread_ptr, key) ==
    LET ret == state_set_ret(read_ptr, data, kread_ptr, key)
        k == make_state_key(key)
    IN  /\ pc = "running"
        /\ changedState' = IF ret >= 0 THEN StageWrite(changedState, k, data)
                           ELSE changedState
        /\ staged' = IF ret >= 0 THEN Put(staged, k, data) ELSE staged
        /\ hookStates' = IF ret < 0 THEN hookStates
                         ELSE IF data = << >> THEN Drop(hookStates, k)
                         ELSE Put(hookStates, k, data)
        /\ UNCHANGED slotVars
        /\ lastCall' = Call("state_set", ret, <<kread_ptr, Len(key)>>, << >>, read_ptr, Len(data))
        /\ lastCommit' = NoCommit
        /\ UNCHANGED persisted
        /\ UNCHANGED <<hookStateCount, ownerCount, ownerDir, ownerDirOther, balance,
                       emittedDir, viewOpen, hookMeta, otxn>>
        /\ UNCHANGED <<emitVars, guardVars, exitVars, runVars>>

state_set(read_ptr, data, kread_ptr, key) ==
    LET ret == state_set_ret(read_ptr, data, kread_ptr, key)
        k == make_state_key(key)
    IN  /\ pc = "running"
        /\ changedState' = IF ret >= 0 THEN StageWrite(changedState, k, data)
                           ELSE changedState
        /\ staged' = IF ret >= 0 THEN Put(staged, k, data) ELSE staged
        /\ UNCHANGED slotVars
        /\ lastCall' = Call("state_set", ret, <<kread_ptr, Len(key)>>, << >>, read_ptr, Len(data))
        /\ lastCommit' = NoCommit
        /\ UNCHANGED persisted
        /\ UNCHANGED <<ledgerVars, emitVars, guardVars, exitVars, runVars>>

\* what a cached or ledger value yields for the guest: [ret, out]
\* a delivery that would cut the value to the buffer instead of refusing it
Deliver_Saturating(write_ptr, write_len, b) ==
    IF write_ptr = 0 THEN [ret |-> data_as_int64(b), out |-> << >>]
    ELSE WRITE_WASM_MEMORY_AND_RETURN(write_ptr, write_len, b, MemoryLength)

Deliver(write_ptr, write_len, b) ==
    IF write_ptr = 0 THEN [ret |-> data_as_int64(b), out |-> << >>]
    ELSE IF Len(b) > write_len THEN [ret |-> TOO_SMALL, out |-> << >>]
    ELSE WRITE_WASM_MEMORY_AND_RETURN(write_ptr, write_len, b, MemoryLength)

\* the cache lookup of a local read
CacheHit(cache, k) == k \in DOMAIN cache

\* state_foreign: [ret, out, cache]; acct is << >> for aread_ptr = 0
state_foreign_calc(cache, ledger, write_ptr, write_len, kread_ptr, key, aread_ptr, aread_len) ==
    LET is_foreign == aread_ptr > 0
        k == make_state_key(key)
        err(code) == [ret |-> code, out |-> << >>, cache |-> cache]
        src == IF is_foreign THEN ForeignStates ELSE ledger
    IN  IF \/ NOT_IN_BOUNDS(kread_ptr, Len(key), MemoryLength)
           \/ NOT_IN_BOUNDS(aread_ptr, aread_len, MemoryLength)
           \/ NOT_IN_BOUNDS(write_ptr, write_len, MemoryLength)
        THEN err(OUT_OF_BOUNDS)
        ELSE IF Len(key) > 32 THEN err(TOO_BIG)
        ELSE IF is_foreign /\ aread_len # 20 THEN err(INVALID_ACCOUNT)
        ELSE IF k = << >> THEN err(INVALID_ARGUMENT)
        ELSE IF ~is_foreign /\ CacheHit(cache, k)
             THEN LET d == Deliver(write_ptr, write_len, cache[k].data)
                  IN  [ret |-> d.ret, out |-> d.out, cache |-> cache]
        ELSE IF k \notin DOMAIN src THEN err(DOESNT_EXIST)
        ELSE LET d == Deliver(write_ptr, write_len, src[k])
             IN  [ret |-> d.ret, out |-> d.out,
                  cache |-> IF is_foreign THEN cache
                            ELSE Put(cache, k, [dirty |-> FALSE, data |-> src[k]])]

state_foreign(write_ptr, write_len, kread_ptr, key, aread_ptr, aread_len) ==
    LET r == state_foreign_calc(changedState, hookStates, write_ptr, write_len,
                                kread_ptr, key, aread_ptr, aread_len)
    IN  /\ pc = "running"
        /\ changedState' = r.cache
        /\ UNCHANGED slotVars
        /\ lastCall' = Call(IF aread_ptr = 0 /\ aread_len = 0 THEN "state" ELSE "state_foreign",
                            r.ret, make_state_key(key), r.out, write_ptr, write_len)
        /\ lastCommit' = NoCommit
        /\ UNCHANGED persisted
        /\ UNCHANGED <<ledgerVars, staged, emitVars, guardVars, exitVars, runVars>>

(***************************************************************************)
(* accept / rollback (HOOK_EXIT) and the guard _g.                         *)
(***************************************************************************)
\* is_UTF16LE: even, non-empty, every even byte non-zero and every odd byte zero
is_UTF16LE(buffer) ==
    /\ Len(buffer) % 2 = 0
    /\ Len(buffer) # 0
    /\ \A i \in 1..Len(buffer) :
          IF i % 2 = 1 THEN buffer[i] # 0 ELSE buffer[i] = 0

\* the reason string HOOK_EXIT stores for the bytes at read_ptr
ExitReasonOf(bytes) ==
    IF is_UTF16LE(bytes)
    THEN [i \in 1..(Len(bytes) \div 2) |-> bytes[2 * i - 1]]
    ELSE bytes

ReasonInputs == { << >>, <<65>>, <<65, 0>> }

\* a HOOK_EXIT that stores the exit type and code before it tests the
\* reason pointer
HOOK_EXIT_StoreFirst(read_ptr, bytes, error_code, exit_type) ==
    LET capped == SubSeq(bytes, 1, Min(Len(bytes), 64))
        oob == read_ptr # 0 /\ NOT_IN_BOUNDS(read_ptr, Len(capped), MemoryLength)
        ret == IF oob THEN OUT_OF_BOUNDS
               ELSE IF exit_type = ACCEPT THEN RC_ACCEPT ELSE RC_ROLLBACK
    IN  /\ pc = "running"
        /\ exitReason' = IF ~oob /\ read_ptr # 0 THEN ExitReasonOf(capped) ELSE exitReason
        /\ exitType' = exit_type
        /\ exitCode' = error_code
        /\ acceptDone' = (acceptDone \/ (~oob /\ exit_type = ACCEPT))
        /\ pc' = IF oob THEN pc ELSE "terminated"
        /\ UNCHANGED slotVars
        /\ lastCall' = Call(IF exit_type = ACCEPT THEN "accept" ELSE "rollback",
                            ret, << >>, capped, read_ptr, error_code)
        /\ lastCommit' = NoCommit
        /\ UNCHANGED persisted
        /\ UNCHANGED <<ledgerVars, stateVars, emitVars, guardVars,
                       instructionCount, callback, runs>>

\* HOOK_EXIT: read_len is capped at 64, the reason is read when read_ptr # 0
HOOK_EXIT(read_ptr, bytes, error_code, exit_type) ==
    LET capped == SubSeq(bytes, 1, Min(Len(bytes), 64))
        oob == read_ptr # 0 /\ NOT_IN_BOUNDS(read_ptr, Len(capped), MemoryLength)
        ret == IF oob THEN OUT_OF_BOUNDS
               ELSE IF exit_type = ACCEPT THEN RC_ACCEPT ELSE RC_ROLLBACK
    IN  /\ pc = "running"
        /\ exitReason' = IF ~oob /\ read_ptr # 0 THEN ExitReasonOf(capped) ELSE exitReason
        /\ exitType' = IF oob THEN exitType ELSE exit_type
        /\ exitCode' = IF oob THEN exitCode ELSE error_code
        /\ acceptDone' = (acceptDone \/ (~oob /\ exit_type = ACCEPT))
        /\ pc' = IF oob THEN pc ELSE "terminated"
        /\ UNCHANGED slotVars
        /\ lastCall' = Call(IF exit_type = ACCEPT THEN "accept" ELSE "rollback",
                            ret, << >>, capped, read_ptr, error_code)
        /\ lastCommit' = NoCommit
        /\ UNCHANGED persisted
        /\ UNCHANGED <<ledgerVars, stateVars, emitVars, guardVars,
                       instructionCount, callback, runs>>

accept(read_ptr, bytes, error_code) == HOOK_EXIT(read_ptr, bytes, error_code, ACCEPT)

rollback(read_ptr, bytes, error_code) == HOOK_EXIT(read_ptr, bytes, error_code, ROLLBACK)

GuardIds == {1, 2}

\* guard_map[id] after the call counted itself
GuardCount(map, id) == IF id \in DOMAIN map THEN map[id] + 1 ELSE 1

\* a test that trips on the last allowed iteration
GuardExceeded_AtLimit(count, maxitr) == count >= maxitr

\* the violation test of _g
GuardExceeded(count, maxitr) == count > maxitr

\* _g; lastCall.key carries <<calls of id so far>> for the observer
_g(id, maxitr) ==
    LET count == GuardCount(guard_map, id)
        violated == GuardExceeded(count, maxitr)
    IN  /\ pc = "running"
        /\ guard_map' = Put(guard_map, id, count)
        /\ gcalls' = Put(gcalls, id, IF id \in DOMAIN gcalls THEN gcalls[id] + 1 ELSE 1)
        /\ exitType' = IF violated THEN ROLLBACK ELSE exitType
        /\ exitCode' = IF violated THEN GUARD_VIOLATION ELSE exitCode
        /\ pc' = IF violated THEN "terminated" ELSE pc
        /\ UNCHANGED slotVars
        /\ lastCall' = Call("_g", IF violated THEN RC_ROLLBACK ELSE 1, << >>, << >>,
                            id, maxitr)
        /\ lastCommit' = NoCommit
        /\ UNCHANGED persisted
        /\ UNCHANGED <<ledgerVars, stateVars, emitVars, exitReason, acceptDone,
                       instructionCount, callback, runs>>

(***************************************************************************)
(* Emission: etxn_reserve, nonce, etxn_fee_base, emit.                     *)
(***************************************************************************)
\* an etxn_reserve that could be called again
etxn_reserve_calc_Again(expected, count) ==
    IF count > max_emit THEN [ret |-> TOO_BIG, expected |-> expected]
    ELSE [ret |-> count, expected |-> count]

\* etxn_reserve: [ret, expected]
etxn_reserve_calc(expected, count) ==
    IF expected > -1 THEN [ret |-> ALREADY_SET, expected |-> expected]
    ELSE IF count > max_emit THEN [ret |-> TOO_BIG, expected |-> expected]
    ELSE [ret |-> count, expected |-> count]

ReserveInputs == {0, 1, MaxQueue, max_emit, max_emit + 1}

etxn_reserve(count) ==
    LET r == etxn_reserve_calc(expected_etxn_count, count)
    IN  /\ pc = "running"
        /\ expected_etxn_count' = r.expected
        /\ UNCHANGED slotVars
        /\ lastCall' = Call("etxn_reserve", r.ret, << >>, << >>, count, expected_etxn_count)
        /\ lastCommit' = NoCommit
        /\ UNCHANGED persisted
        /\ UNCHANGED <<ledgerVars, stateVars, emittedTxn, nonce_counter, nonce_used,
                       fee_base, guardVars, exitVars, runVars>>

\* nonce: sha512Half(prefix, txid, nonce_counter, account) is one-to-one in the
\* counter within a run, so the counter's value stands for the hash
nonce(write_ptr, write_len) ==
    LET ret == IF write_len < 32 THEN TOO_SMALL
               ELSE IF NOT_IN_BOUNDS(write_ptr, write_len, MemoryLength) THEN OUT_OF_BOUNDS
               ELSE IF nonce_counter > max_nonce THEN TOO_MANY_NONCES
               ELSE 32
    IN  /\ pc = "running"
        /\ nonce_counter < MaxNonces
        /\ nonce_counter' = IF ret = 32 THEN nonce_counter + 1 ELSE nonce_counter
        /\ nonce_used' = IF ret = 32 THEN nonce_used \cup {nonce_counter} ELSE nonce_used
        /\ UNCHANGED slotVars
        /\ lastCall' = Call("nonce", ret, << >>,
                            IF ret = 32 THEN <<nonce_counter>> ELSE << >>,
                            write_ptr, write_len)
        /\ lastCommit' = NoCommit
        /\ UNCHANGED persisted
        /\ UNCHANGED <<ledgerVars, stateVars, expected_etxn_count, emittedTxn, fee_base,
                       guardVars, exitVars, runVars>>

etxn_fee_base(tx_byte_count) ==
    LET r == etxn_fee_base_calc(expected_etxn_count, otxn, fee_base, tx_byte_count)
    IN  /\ pc = "running"
        /\ fee_base' = r.fee_base
        /\ UNCHANGED slotVars
        /\ lastCall' = Call("etxn_fee_base", r.ret, << >>, << >>, tx_byte_count, 0)
        /\ lastCommit' = NoCommit
        /\ UNCHANGED persisted
        /\ UNCHANGED <<ledgerVars, stateVars, expected_etxn_count, emittedTxn,
                       nonce_counter, nonce_used, guardVars, exitVars, runVars>>

\* the size of the serialised sfEmitDetails object (hook_api::etxn_details_size)
etxn_details_size == 105

\* etxn_details: [ret, issued], issued telling whether the nonce call inside
\* it issued a nonce
etxn_details_calc(write_ptr, write_len, expected, tx, counter) ==
    LET fail(code) == [ret |-> code, issued |-> FALSE]
    IN  IF NOT_IN_BOUNDS(write_ptr, write_len, MemoryLength) THEN fail(OUT_OF_BOUNDS)
        ELSE IF write_len < etxn_details_size THEN fail(TOO_SMALL)
        ELSE IF expected <= -1 THEN fail(PREREQUISITE_NOT_MET)
        ELSE IF etxn_burden(expected, tx) < 1 THEN fail(FEE_TOO_LARGE)
        ELSE IF counter > max_nonce THEN fail(INTERNAL_ERROR)
        ELSE [ret |-> etxn_details_size, issued |-> TRUE]

\* the sfEmitDetails object etxn_details serialises around the nonce n
EmitDetailsOf(orig, expected, n) ==
    [gen |-> etxn_generation(orig), bur |-> etxn_burden(expected, orig),
     ptxn |-> orig.id, nonce |-> n, cb |-> HookAccount]

\* an etxn_details that issues its nonce without recording it as used
etxn_details_UnrecordedNonce(write_ptr, write_len) ==
    LET r == etxn_details_calc(write_ptr, write_len, expected_etxn_count, otxn, nonce_counter)
    IN  /\ pc = "running"
        /\ nonce_counter < MaxNonces
        /\ nonce_counter' = IF r.issued THEN nonce_counter + 1 ELSE nonce_counter
        /\ nonce_used' = nonce_used
        /\ UNCHANGED slotVars
        /\ lastCall' = Call("etxn_details", r.ret, << >>,
                            IF r.issued
                            THEN EmitDetailsOf(otxn, expected_etxn_count, nonce_counter)
                            ELSE << >>,
                            write_ptr, write_len)
        /\ lastCommit' = NoCommit
        /\ UNCHANGED persisted
        /\ UNCHANGED <<ledgerVars, stateVars, expected_etxn_count, emittedTxn, fee_base,
                       guardVars, exitVars, runVars>>

\* etxn_details; lastCall.out is the EmitDetails object written to the guest
etxn_details(write_ptr, write_len) ==
    LET r == etxn_details_calc(write_ptr, write_len, expected_etxn_count, otxn, nonce_counter)
    IN  /\ pc = "running"
        /\ nonce_counter < MaxNonces
        /\ nonce_counter' = IF r.issued THEN nonce_counter + 1 ELSE nonce_counter
        /\ nonce_used' = IF r.issued THEN nonce_used \cup {nonce_counter} ELSE nonce_used
        /\ UNCHANGED slotVars
        /\ lastCall' = Call("etxn_details", r.ret, << >>,
                            IF r.issued
                            THEN EmitDetailsOf(otxn, expected_etxn_count, nonce_counter)
                            ELSE << >>,
                            write_ptr, write_len)
        /\ lastCommit' = NoCommit
        /\ UNCHANGED persisted
        /\ UNCHANGED <<ledgerVars, stateVars, expected_etxn_count, emittedTxn, fee_base,
                       guardVars, exitVars, runVars>>

\* a test that lets one more transaction in
QueueFull_OneMore(queued, expected) == queued > expected

\* emit's test for a full queue
QueueFull(queued, expected) == queued >= expected

\* lines 2113-2116: minfee of rule 7 for a transaction of read_len bytes
EmitMinFee(read_len, expected, cached) ==
    LET fb == IF cached = 0
              THEN etxn_fee_base_calc(expected, otxn, cached, read_len).ret
              ELSE cached
    IN  fb * drops_per_byte * read_len

\* rule 7 of emit: [ok, fee_base]
EmitFeeRule(tx, expected, cached) ==
    LET fb == IF cached = 0
              THEN etxn_fee_base_calc(expected, otxn, cached, tx.len).ret
              ELSE cached
        minfee == EmitMinFee(tx.len, expected, cached)
    IN  [ok |-> ~(minfee < 0 \/ fb < 0) /\ tx.has_fee /\ ~(tx.fee < minfee),
         fee_base |-> fb]

\* lines 2031-2080: the five sub-fields of sfEmitDetails that rule 3 compares;
\* orig is the originating transaction
EmitDetailsCheck(tx, orig, expected, nonces) ==
    /\ tx.gen = etxn_generation(orig)
    /\ tx.bur = etxn_burden(expected, orig)
    /\ tx.ptxn = orig.id
    /\ tx.nonce \in nonces
    /\ tx.cb = HookAccount

\* rules 1 to 6 without the test that the nonce was issued
EmitRulesOneToSix_AnyNonce(tx, expected, nonces) ==
    /\ tx.has_seq /\ tx.seq = 0
    /\ tx.spk \in {"zero33", "empty"}
    /\ tx.has_ed /\ tx.ed_complete
    /\ tx.gen = etxn_generation(otxn)
    /\ tx.bur = etxn_burden(expected, otxn)
    /\ tx.ptxn = otxn.id
    /\ tx.cb = HookAccount
    /\ ~tx.has_sig
    /\ tx.has_lls /\ ~((IF tx.has_lls THEN tx.lls ELSE 0) < (ValidLedgerIndex + 1) + 1)
    /\ tx.has_fls /\ ~(tx.fls > tx.lls)

\* rules 1 to 6 of emit
EmitRulesOneToSix(tx, expected, nonces) ==
    /\ tx.has_seq /\ tx.seq = 0
    /\ tx.spk \in {"zero33", "empty"}
    /\ tx.has_ed /\ tx.ed_complete
    /\ EmitDetailsCheck(tx, otxn, expected, nonces)
    /\ ~tx.has_sig
    /\ tx.has_lls /\ ~((IF tx.has_lls THEN tx.lls ELSE 0) < (ValidLedgerIndex + 1) + 1)
    /\ tx.has_fls /\ ~(tx.fls > tx.lls)

\* emit: [ret, fee_base, push]
emit_calc(read_ptr, tx, expected, queue, nonces, cached) ==
    LET fail(code) == [ret |-> code, fee_base |-> cached, push |-> FALSE]
        fee == EmitFeeRule(tx, expected, cached)
    IN  IF NOT_IN_BOUNDS(read_ptr, tx.len, MemoryLength) THEN fail(OUT_OF_BOUNDS)
        ELSE IF expected < 0 THEN fail(PREREQUISITE_NOT_MET)
        ELSE IF QueueFull(Len(queue), expected) THEN fail(TOO_MANY_EMITTED_TXN)
        ELSE IF ~tx.parse THEN fail(EMISSION_FAILURE)
        ELSE IF ~EmitRulesOneToSix(tx, expected, nonces) THEN fail(EMISSION_FAILURE)
        ELSE IF ~fee.ok
             THEN [ret |-> EMISSION_FAILURE, fee_base |-> fee.fee_base, push |-> FALSE]
        ELSE IF ~tx.is_new
             THEN [ret |-> EMISSION_FAILURE, fee_base |-> fee.fee_base, push |-> FALSE]
        ELSE [ret |-> tx.len, fee_base |-> fee.fee_base, push |-> TRUE]

\* the child transaction a well-behaved guest builds: EmitDetails as
\* etxn_details writes them, the given nonce and fee
ChildTx(n, fee) ==
    [BaseTx EXCEPT !.id = <<10, 0, n, fee>>, !.has_ed = TRUE, !.ed_complete = TRUE,
                   !.gen = etxn_generation(otxn),
                   !.bur = etxn_burden(expected_etxn_count, otxn),
                   !.ptxn = otxn.id, !.nonce = n, !.cb = HookAccount, !.fee = fee]

\* the fee the specification names: base_fee * burden * drops_per_byte * bytes
SpecFee == fee_base_host * etxn_burden(expected_etxn_count, otxn) * drops_per_byte * TxLen

\* ill-formed variants of a child transaction, one rule broken each
Deviate(tx, d) ==
    LET t == [tx EXCEPT !.id = <<10, d, tx.nonce, tx.fee>>]
    IN  CASE d = 1 -> [t EXCEPT !.parse = FALSE]
          [] d = 2 -> [t EXCEPT !.has_seq = FALSE]
          [] d = 3 -> [t EXCEPT !.seq = 1]
          [] d = 4 -> [t EXCEPT !.spk = "absent"]
          [] d = 5 -> [t EXCEPT !.spk = "badsize"]
          [] d = 6 -> [t EXCEPT !.spk = "nonzero33"]
          [] d = 7 -> [t EXCEPT !.has_ed = FALSE]
          [] d = 8 -> [t EXCEPT !.ed_complete = FALSE]
          [] d = 9 -> [t EXCEPT !.gen = tx.gen + 1]
          [] d = 10 -> [t EXCEPT !.bur = tx.bur + 1]
          [] d = 11 -> [t EXCEPT !.ptxn = <<99>>]
          [] d = 12 -> [t EXCEPT !.cb = OtherAccount]
          [] d = 13 -> [t EXCEPT !.has_sig = TRUE]
          [] d = 14 -> [t EXCEPT !.has_lls = FALSE, !.lls = 0, !.fls = 0]
          [] d = 15 -> [t EXCEPT !.lls = ValidLedgerIndex + 1, !.fls = ValidLedgerIndex + 1]
          [] d = 16 -> [t EXCEPT !.has_fls = FALSE]
          [] d = 17 -> [t EXCEPT !.fls = tx.lls + 1]
          [] d = 18 -> [t EXCEPT !.has_fee = FALSE]
          [] d = 19 -> [t EXCEPT !.is_new = FALSE]
          [] OTHER -> tx

EmitCandidates ==
    { ChildTx(n, f) : n \in 0..MaxNonces,
                      f \in {SpecFee - 1, SpecFee, SpecFee * drops_per_byte * TxLen} }
    \cup { Deviate(ChildTx(0, SpecFee * drops_per_byte * TxLen), d) : d \in 1..19 }

emit(read_ptr, tx) ==
    LET r == emit_calc(read_ptr, tx, expected_etxn_count, emittedTxn, nonce_used, fee_base)
    IN  /\ pc = "running"
        /\ Len(emittedTxn) < MaxQueue \/ ~r.push
        /\ emittedTxn' = IF r.push THEN Append(emittedTxn, tx) ELSE emittedTxn
        /\ fee_base' = r.fee_base
        /\ UNCHANGED slotVars
        /\ lastCall' = Call("emit", r.ret, << >>, tx, Len(emittedTxn), read_ptr)
        /\ lastCommit' = NoCommit
        /\ UNCHANGED persisted
        /\ UNCHANGED <<ledgerVars, stateVars, expected_etxn_count, nonce_counter,
                       nonce_used, guardVars, exitVars, runVars>>

(***************************************************************************)
(* The slot table: otxn_slot, slot_set, slot_subfield, slot_subarray,       *)
(* slot_clear.  A SlotEntry is [id, storage, entry]: the identifier it was *)
(* loaded by, the object it holds, and the kind of node its cursor points  *)
(* at ("object", "array" or "leaf").  Every object of the model has the    *)
(* account field sfAccount and the array sfMemos of MemoCount objects.     *)
(***************************************************************************)
NO_FREE_SLOTS == -6
INVALID_FIELD == -17
NOT_AN_ARRAY == -22
NOT_AN_OBJECT == -23

\* hook_api::max_slots, scaled to a small table
max_slots == 3

sfAccount == "sfAccount"
sfMemos == "sfMemos"
sfSigners == "sfSigners"    \* a known field no object of the model carries
sfUnknownCode == "unknown"  \* a code SField::getField maps to sfInvalid
FieldIds == {sfAccount, sfMemos, sfSigners, sfUnknownCode}
MemoCount == 2

\* the kind of node a present field is
FieldKind(field_id) == IF field_id = sfMemos THEN "array" ELSE "leaf"
isFieldPresent(field_id) == field_id \in {sfAccount, sfMemos}

\* the 32 bytes of a transaction id
TxIdBytes(tx) == [i \in 1..32 |-> tx.id[1]]

SlotEntry(id, storage, entry) == [id |-> id, storage |-> storage, entry |-> entry]

no_free_slots(counter, free) == counter > max_slots /\ Len(free) = 0

\* get_free_slot taking the id freed last
get_free_slot_Newest(counter, free) ==
    LET fromQueue == IF Len(free) > 0 THEN free[Len(free)] ELSE 0
        rest == IF Len(free) > 0 THEN SubSeq(free, 1, Len(free) - 1) ELSE free
    IN  IF fromQueue = 0
        THEN [slot_into |-> counter, counter |-> counter + 1, free |-> rest]
        ELSE [slot_into |-> fromQueue, counter |-> counter, free |-> rest]

\* get_free_slot: [slot_into, counter, free]
get_free_slot(counter, free) ==
    LET fromQueue == IF Len(free) > 0 THEN Head(free) ELSE 0
        rest == IF Len(free) > 0 THEN Tail(free) ELSE free
    IN  IF fromQueue = 0
        THEN [slot_into |-> counter, counter |-> counter + 1, free |-> rest]
        ELSE [slot_into |-> fromQueue, counter |-> counter, free |-> rest]

\* the slot a call with argument slot_into uses: allocated when it is 0
SlotFor(slot_into, counter, free) ==
    IF slot_into = 0 THEN get_free_slot(counter, free)
    ELSE [slot_into |-> slot_into, counter |-> counter, free |-> free]

\* std::map::emplace followed by the reset of the cursor: an occupied slot
\* keeps its id and storage
Emplace(table, n, e) ==
    IF n \in DOMAIN table THEN [table EXCEPT ![n].entry = "object"]
    ELSE Put(table, n, e)

\* otxn_slot: [ret, slot, counter, free]
otxn_slot_calc(table, counter, free, slot_into, tx) ==
    LET keep(ret) == [ret |-> ret, slot |-> table, counter |-> counter, free |-> free]
        a == SlotFor(slot_into, counter, free)
    IN  IF slot_into > max_slots THEN keep(INVALID_ARGUMENT)
        ELSE IF slot_into = 0 /\ no_free_slots(counter, free) THEN keep(NO_FREE_SLOTS)
        ELSE [ret |-> a.slot_into,
              slot |-> Emplace(table, a.slot_into, SlotEntry(TxIdBytes(tx), "otxn", "object")),
              counter |-> a.counter, free |-> a.free]

otxn_slot(slot_into) ==
    LET r == otxn_slot_calc(slot, slot_counter, slot_free, slot_into, otxn)
    IN  /\ pc = "running"
        /\ slot' = r.slot
        /\ slot_counter' = r.counter
        /\ slot_free' = r.free
        /\ lastCall' = Call("otxn_slot", r.ret, << >>, << >>, slot_into, 0)
        /\ lastCommit' = NoCommit
        /\ UNCHANGED persisted
        /\ UNCHANGED <<ledgerVars, stateVars, emitVars, guardVars, exitVars, runVars>>

\* what the bytes at read_ptr name: a keylet or hash that resolves, one that
\* does not, or bytes that do not parse
SlotTargets == {"found", "missing", "malformed"}

\* slot_set: [ret, slot, counter, free]
slot_set_calc(table, counter, free, read_ptr, read_len, slot_into, target) ==
    LET keep(ret) == [ret |-> ret, slot |-> table, counter |-> counter, free |-> free]
        a == SlotFor(slot_into, counter, free)
        storage == IF read_len = 34 THEN "sle" ELSE "htx"
        \* the read_len bytes at read_ptr
        slot_key == [i \in 1..read_len |-> 0]
    IN  IF NOT_IN_BOUNDS(read_ptr, read_len, MemoryLength) THEN keep(OUT_OF_BOUNDS)
        ELSE IF (read_len # 32 /\ read_len # 34) \/ slot_into < 0 \/ slot_into > max_slots
        THEN keep(INVALID_ARGUMENT)
        ELSE IF slot_into = 0 /\ no_free_slots(counter, free) THEN keep(NO_FREE_SLOTS)
        ELSE IF read_len = 34 /\ target # "found" THEN keep(DOESNT_EXIST)
        ELSE IF read_len = 32 /\ target = "malformed" THEN keep(INVALID_ARGUMENT)
        ELSE IF read_len = 32 /\ target = "missing" THEN keep(DOESNT_EXIST)
        ELSE [ret |-> a.slot_into,
              slot |-> Emplace(table, a.slot_into, SlotEntry(slot_key, storage, "object")),
              counter |-> a.counter, free |-> a.free]

slot_set(read_ptr, read_len, slot_into, target) ==
    LET r == slot_set_calc(slot, slot_counter, slot_free, read_ptr, read_len, slot_into, target)
    IN  /\ pc = "running"
        /\ slot' = r.slot
        /\ slot_counter' = r.counter
        /\ slot_free' = r.free
        /\ lastCall' = Call("slot_set", r.ret, << >>, << >>, slot_into, read_len)
        /\ lastCommit' = NoCommit
        /\ UNCHANGED persisted
        /\ UNCHANGED <<ledgerVars, stateVars, emitVars, guardVars, exitVars, runVars>>

\* the descent with a new slot that takes the parent's id and cursor but no
\* handle on the stored object
Descend_NoHandle(table, counter, free, parent_slot, new_slot, kind) ==
    LET a == SlotFor(new_slot, counter, free)
        copy == IF a.slot_into # parent_slot
                THEN Put(table, a.slot_into, SlotEntry(table[parent_slot].id, "none", kind))
                ELSE table
    IN  [ret |-> a.slot_into,
         slot |-> [copy EXCEPT ![a.slot_into].entry = kind],
         counter |-> a.counter, free |-> a.free]

\* the descent shared by slot_subfield and slot_subarray: new_slot becomes a
\* copy of the parent (unless it is the parent) with the cursor on the child
Descend(table, counter, free, parent_slot, new_slot, kind) ==
    LET a == SlotFor(new_slot, counter, free)
        copy == IF a.slot_into # parent_slot THEN Put(table, a.slot_into, table[parent_slot])
                ELSE table
    IN  [ret |-> a.slot_into,
         slot |-> [copy EXCEPT ![a.slot_into].entry = kind],
         counter |-> a.counter, free |-> a.free]

\* slot_subfield: [ret, slot, counter, free]
slot_subfield_calc(table, counter, free, parent_slot, field_id, new_slot) ==
    LET keep(ret) == [ret |-> ret, slot |-> table, counter |-> counter, free |-> free]
    IN  IF parent_slot \notin DOMAIN table THEN keep(DOESNT_EXIST)
        ELSE IF new_slot = 0 /\ no_free_slots(counter, free) THEN keep(NO_FREE_SLOTS)
        ELSE IF field_id = sfUnknownCode THEN keep(INVALID_FIELD)
        ELSE IF table[parent_slot].entry # "object" THEN keep(NOT_AN_OBJECT)
        ELSE IF ~isFieldPresent(field_id) THEN keep(DOESNT_EXIST)
        ELSE Descend(table, counter, free, parent_slot, new_slot, FieldKind(field_id))

slot_subfield(parent_slot, field_id, new_slot) ==
    LET r == slot_subfield_calc(slot, slot_counter, slot_free, parent_slot, field_id, new_slot)
    IN  /\ pc = "running"
        /\ slot' = r.slot
        /\ slot_counter' = r.counter
        /\ slot_free' = r.free
        /\ lastCall' = Call("slot_subfield", r.ret, << >>, << >>, new_slot, parent_slot)
        /\ lastCommit' = NoCommit
        /\ UNCHANGED persisted
        /\ UNCHANGED <<ledgerVars, stateVars, emitVars, guardVars, exitVars, runVars>>

\* slot_subarray with the slot allocated before the index is tested
slot_subarray_calc_AllocFirst(table, counter, free, parent_slot, array_id, new_slot) ==
    LET keep(ret) == [ret |-> ret, slot |-> table, counter |-> counter, free |-> free]
        a == SlotFor(new_slot, counter, free)
    IN  IF parent_slot \notin DOMAIN table THEN keep(DOESNT_EXIST)
        ELSE IF table[parent_slot].entry # "array" THEN keep(NOT_AN_ARRAY)
        ELSE IF new_slot = 0 /\ no_free_slots(counter, free) THEN keep(NO_FREE_SLOTS)
        ELSE IF MemoCount <= array_id
        THEN [ret |-> DOESNT_EXIST, slot |-> table, counter |-> a.counter, free |-> a.free]
        ELSE Descend(table, counter, free, parent_slot, new_slot, "object")

\* slot_subarray: [ret, slot, counter, free]
slot_subarray_calc(table, counter, free, parent_slot, array_id, new_slot) ==
    LET keep(ret) == [ret |-> ret, slot |-> table, counter |-> counter, free |-> free]
    IN  IF parent_slot \notin DOMAIN table THEN keep(DOESNT_EXIST)
        ELSE IF table[parent_slot].entry # "array" THEN keep(NOT_AN_ARRAY)
        ELSE IF new_slot = 0 /\ no_free_slots(counter, free) THEN keep(NO_FREE_SLOTS)
        ELSE IF MemoCount <= array_id THEN keep(DOESNT_EXIST)
        ELSE Descend(table, counter, free, parent_slot, new_slot, "object")

slot_subarray(parent_slot, array_id, new_slot) ==
    LET r == slot_subarray_calc(slot, slot_counter, slot_free, parent_slot, array_id, new_slot)
    IN  /\ pc = "running"
        /\ slot' = r.slot
        /\ slot_counter' = r.counter
        /\ slot_free' = r.free
        /\ lastCall' = Call("slot_subarray", r.ret, << >>, << >>, new_slot, parent_slot)
        /\ lastCommit' = NoCommit
        /\ UNCHANGED persisted
        /\ UNCHANGED <<ledgerVars, stateVars, emitVars, guardVars, exitVars, runVars>>

\* slot_id: [ret, out]
slot_id_calc(table, write_ptr, write_len, slot_no) ==
    IF slot_no \notin DOMAIN table THEN [ret |-> DOESNT_EXIST, out |-> << >>]
    ELSE IF write_len < Len(table[slot_no].id) THEN [ret |-> TOO_SMALL, out |-> << >>]
    ELSE IF NOT_IN_BOUNDS(write_ptr, write_len, MemoryLength)
    THEN [ret |-> OUT_OF_BOUNDS, out |-> << >>]
    ELSE WRITE_WASM_MEMORY_AND_RETURN(write_ptr, write_len, table[slot_no].id, MemoryLength)

slot_id(write_ptr, write_len, slot_no) ==
    LET r == slot_id_calc(slot, write_ptr, write_len, slot_no)
    IN  /\ pc = "running"
        /\ lastCall' = Call("slot_id", r.ret, <<slot_no>>, r.out, write_ptr, write_len)
        /\ lastCommit' = NoCommit
        /\ UNCHANGED persisted
        /\ UNCHANGED <<ledgerVars, stateVars, emitVars, guardVars, slotVars, exitVars, runVars>>

\* the bytes entry->add(s) gives for a slot: the account field is a length
\* byte and 20 bytes, an object or array node is named by the stored object
\* it lies in and by its kind
StorageTag(storage) == IF storage = "otxn" THEN 1 ELSE IF storage = "sle" THEN 2 ELSE 3
Serialized(e) ==
    IF e.entry = "leaf" THEN <<20>> \o [i \in 1..20 |-> StorageTag(e.storage)]
    ELSE IF e.entry = "array" THEN <<StorageTag(e.storage), 240, 241>>
    ELSE <<StorageTag(e.storage), 224, 225>>

\* slot: [ret, out]
slot_calc(table, write_ptr, write_len, slot_no) ==
    LET fail(ret) == [ret |-> ret, out |-> << >>]
        s == Serialized(table[slot_no])
        is_account == table[slot_no].entry = "leaf"
        data == IF is_account THEN Tail(s) ELSE s
    IN  IF ~(write_ptr = 0 /\ write_len = 0) /\ NOT_IN_BOUNDS(write_ptr, write_len, MemoryLength)
        THEN fail(OUT_OF_BOUNDS)
        ELSE IF write_ptr # 0 /\ write_len = 0 THEN fail(TOO_SMALL)
        ELSE IF slot_no \notin DOMAIN table THEN fail(DOESNT_EXIST)
        ELSE IF write_ptr = 0 THEN fail(data_as_int64(s))
        ELSE IF Len(data) > write_len THEN fail(TOO_SMALL)
        ELSE WRITE_WASM_MEMORY_AND_RETURN(write_ptr, write_len, data, MemoryLength)

slot_size_calc(table, slot_no) ==
    IF slot_no \notin DOMAIN table THEN DOESNT_EXIST
    ELSE Len(Serialized(table[slot_no]))

slot_count_calc(table, slot_no) ==
    IF slot_no \notin DOMAIN table THEN DOESNT_EXIST
    ELSE IF table[slot_no].entry # "array" THEN NOT_AN_ARRAY
    ELSE MemoCount

\* slot_type: with flags = 0 the field code of the node, (type << 16) | field;
\* no object of the model carries an amount
NOT_AN_AMOUNT == -32
slot_type_calc(table, slot_no, flags) ==
    IF slot_no \notin DOMAIN table THEN DOESNT_EXIST
    ELSE IF flags = 0
    THEN (IF table[slot_no].entry = "leaf" THEN 8 * 65536 + 1
          ELSE IF table[slot_no].entry = "array" THEN 15 * 65536 + 9
          ELSE 14 * 65536 + 10)
    ELSE IF flags = 1 THEN NOT_AN_AMOUNT
    ELSE INVALID_ARGUMENT

\* the longest free queue the model lets slot_clear build
MaxFree == 2

slot_clear(slot_no) ==
    LET found == slot_no \in DOMAIN slot
    IN  /\ pc = "running"
        /\ found => Len(slot_free) < MaxFree
        /\ slot' = IF found THEN Drop(slot, slot_no) ELSE slot
        /\ slot_free' = IF found THEN Append(slot_free, slot_no) ELSE slot_free
        /\ lastCall' = Call("slot_clear", IF found THEN 1 ELSE DOESNT_EXIST, << >>, << >>,
                            slot_no, 0)
        /\ lastCommit' = NoCommit
        /\ UNCHANGED <<slot_counter, persisted>>
        /\ UNCHANGED <<ledgerVars, stateVars, emitVars, guardVars, exitVars, runVars>>

(***************************************************************************)
(* Floats.  The packed int64 is kept as its bit fields: b63 (the int64 is   *)
(* negative), sign (bit 62, set for a positive float), e (bits 54..61, the *)
(* exponent plus 97) and m (bits 0..53, the mantissa).  A mantissa is a     *)
(* decimal number d * 10^k, kept as [d, k] with d below 100 and no trailing *)
(* zero in d; comparisons with minMantissa = 10^15 and maxMantissa =       *)
(* 10^16 - 1 count its decimal digits.                                     *)
(***************************************************************************)
INVALID_FLOAT == -10024
MANTISSA_OVERSIZED == -26
EXPONENT_OVERSIZED == -28
EXPONENT_UNDERSIZED == -29

minExponent == -96
maxExponent == 80
\* decimal digits of minMantissa and of maxMantissa
MantissaDigits == 16
\* the bias of the exponent field
ExponentBias == 97

Man(d, k) ==
    IF d = 0 THEN [d |-> 0, k |-> 0]
    ELSE IF d % 10 = 0 THEN [d |-> d \div 10, k |-> k + 1]
    ELSE [d |-> d, k |-> k]
NumDigits(m) == IF m.d = 0 THEN 0 ELSE (IF m.d < 10 THEN 1 ELSE 2) + m.k
BelowMinMantissa(m) == NumDigits(m) < MantissaDigits
AboveMaxMantissa(m) == NumDigits(m) > MantissaDigits
Times10(m) == Man(m.d, m.k + 1)
Div10(m) == IF m.k > 0 THEN Man(m.d, m.k - 1) ELSE Man(m.d \div 10, 0)

FloatZero == [b63 |-> FALSE, sign |-> 0, e |-> 0, m |-> Man(0, 0)]
\* what a float-producing call returns: an error code, or 0 and the float
Err(code) == [err |-> code, f |-> FloatZero]
Ok(f) == [err |-> 0, f |-> f]

get_exponent(f) == IF f = FloatZero THEN 0 ELSE f.e - ExponentBias
get_mantissa(f) == f.m
is_negative(f) == f.sign = 0
invert_sign(f) == [f EXCEPT !.sign = 1 - f.sign]
set_sign(f, set_negative) == IF is_negative(f) = set_negative THEN f ELSE invert_sign(f)

\* a set_mantissa that would also refuse a mantissa below minMantissa
set_mantissa_Ranged(f, mantissa) ==
    IF AboveMaxMantissa(mantissa) \/ BelowMinMantissa(mantissa) THEN Err(MANTISSA_OVERSIZED)
    ELSE Ok([f EXCEPT !.m = mantissa])

\* set_mantissa: only the upper bound is tested
set_mantissa(f, mantissa) ==
    IF AboveMaxMantissa(mantissa) THEN Err(MANTISSA_OVERSIZED)
    ELSE Ok([f EXCEPT !.m = mantissa])

set_exponent(f, exponent) ==
    IF exponent > maxExponent THEN Err(EXPONENT_OVERSIZED)
    ELSE IF exponent < minExponent THEN Err(EXPONENT_UNDERSIZED)
    ELSE Ok([f EXCEPT !.e = exponent + ExponentBias])

\* make_float(mantissa, exponent); the signed mantissa is [neg, m]
make_float(neg, m, exponent) ==
    IF m.d = 0 THEN Ok(FloatZero)
    ELSE IF ~neg /\ AboveMaxMantissa(m) THEN Err(MANTISSA_OVERSIZED)
    ELSE IF exponent > maxExponent THEN Err(EXPONENT_OVERSIZED)
    ELSE IF exponent < minExponent THEN Err(EXPONENT_UNDERSIZED)
    ELSE LET a == set_mantissa(FloatZero, m)
         IN  IF a.err # 0 THEN
                 \* set_exponent and set_sign then work on the error code: the
                 \* result is a negative int64 (its low bits are not kept here)
                 Ok([b63 |-> TRUE, sign |-> 0, e |-> exponent + ExponentBias, m |-> m])
             ELSE Ok(set_sign(set_exponent(a.f, exponent).f, neg))

\* the two normalisation loops of float_set: [ok, m, exp]
RECURSIVE ScaleUp(_, _)
ScaleUp(m, exp) ==
    IF ~BelowMinMantissa(m) THEN [ok |-> TRUE, m |-> m, exp |-> exp]
    ELSE IF exp - 1 < minExponent THEN [ok |-> FALSE, m |-> m, exp |-> exp]
    ELSE ScaleUp(Times10(m), exp - 1)

RECURSIVE ScaleDown(_, _)
ScaleDown(m, exp) ==
    IF ~AboveMaxMantissa(m) THEN [ok |-> TRUE, m |-> m, exp |-> exp]
    ELSE IF exp + 1 > maxExponent THEN [ok |-> FALSE, m |-> m, exp |-> exp]
    ELSE ScaleDown(Div10(m), exp + 1)

\* hook_float::float_set, which normalises the magnitude of the mantissa
hook_float_set(exp, neg, m) ==
    IF m.d = 0 THEN Ok(FloatZero)
    ELSE LET up == ScaleUp(m, exp)
             down == ScaleDown(up.m, up.exp)
         IN  IF ~up.ok THEN Err(INVALID_FLOAT)
             ELSE IF ~down.ok THEN Err(INVALID_FLOAT)
             ELSE make_float(neg, down.m, down.exp)

\* decimal digits every int64 holds
Int64Digits == 18

\* the host function float_set runs its loops on the signed mantissa: a
\* negative one is below minMantissa on every turn and grows tenfold until
\* the exponent runs out.  The model takes the calls in which that happens
\* before the int64 overflows.
float_set_defined(exp, neg, m) ==
    ~neg \/ NumDigits(m) + (IF exp < minExponent THEN 1 ELSE exp - minExponent + 1) <= Int64Digits

float_set_calc(exp, neg, m) ==
    IF m.d = 0 THEN Ok(FloatZero)
    ELSE IF neg THEN Err(INVALID_FLOAT)
    ELSE hook_float_set(exp, FALSE, m)

\* RETURN_IF_INVALID_FLOAT: the float would make the macro return
IsInvalidFloat(f) ==
    \/ f.b63
    \/ /\ f # FloatZero
       /\ \/ BelowMinMantissa(get_mantissa(f))
          \/ AboveMaxMantissa(get_mantissa(f))
          \/ get_exponent(f) > maxExponent
          \/ get_exponent(f) < minExponent

float_one_internal == make_float(FALSE, Man(1, 15), -15).f

float_negate_calc(f) ==
    IF f = FloatZero THEN Ok(FloatZero)
    ELSE IF IsInvalidFloat(f) THEN Err(INVALID_FLOAT)
    ELSE Ok(invert_sign(f))

float_sign_set_calc(f, negative) ==
    IF IsInvalidFloat(f) THEN Err(INVALID_FLOAT)
    ELSE IF f = FloatZero THEN Ok(FloatZero)
    ELSE Ok(set_sign(f, negative # 0))

float_exponent_set_calc(f, exponent) ==
    IF IsInvalidFloat(f) THEN Err(INVALID_FLOAT)
    ELSE IF f = FloatZero THEN Ok(FloatZero)
    ELSE set_exponent(f, exponent)

\* the int64 mantissa is [neg, m]; a negative one is above maxMantissa as uint64
float_mantissa_set_calc(f, neg, m) ==
    IF IsInvalidFloat(f) THEN Err(INVALID_FLOAT)
    ELSE IF m.d = 0 THEN Ok(FloatZero)
    ELSE IF neg THEN Err(MANTISSA_OVERSIZED)
    ELSE set_mantissa(f, m)

\* a float-producing host call: lastCall.ret is the error code, or 0 for a
\* float returned, whose fields are lastCall.out
FloatCall(fn, r) ==
    /\ pc = "running"
    /\ lastCall' = Call(fn, r.err, << >>, r.f, 0, 0)
    /\ lastCommit' = NoCommit
    /\ UNCHANGED persisted
    /\ UNCHANGED <<ledgerVars, stateVars, emitVars, guardVars, slotVars, exitVars, runVars>>

\* float_set keeps its arguments in lastCall: a is exp, b the signed mantissa
float_set(exp, neg, m) ==
    LET r == float_set_calc(exp, neg, m)
    IN  /\ float_set_defined(exp, neg, m)
        /\ pc = "running"
        /\ lastCall' = Call("float_set", r.err, << >>, r.f, exp, [neg |-> neg, m |-> m])
        /\ lastCommit' = NoCommit
        /\ UNCHANGED persisted
        /\ UNCHANGED <<ledgerVars, stateVars, emitVars, guardVars, slotVars, exitVars, runVars>>
float_one == FloatCall("float_one", Ok(float_one_internal))
float_negate(f) == FloatCall("float_negate", float_negate_calc(f))
float_sign_set(f, negative) == FloatCall("float_sign_set", float_sign_set_calc(f, negative))
float_exponent_set(f, exponent) ==
    FloatCall("float_exponent_set", float_exponent_set_calc(f, exponent))
float_mantissa_set(f, neg, m) ==
    FloatCall("float_mantissa_set", float_mantissa_set_calc(f, neg, m))

(***************************************************************************)
(* float_divide.  The mantissas of the division are sequences of decimal   *)
(* digits, most significant first, << >> being 0.                          *)
(***************************************************************************)
DIVISION_BY_ZERO == -25

ManDigits(m) ==
    IF m.d = 0 THEN << >>
    ELSE (IF m.d < 10 THEN <<m.d>> ELSE <<m.d \div 10, m.d % 10>>) \o [i \in 1..m.k |-> 0]

\* a < b for digit sequences of one length
LexLess(a, b) ==
    \E i \in 1..Len(a) : a[i] < b[i] /\ \A j \in 1..(i - 1) : a[j] = b[j]
DigLess(a, b) == Len(a) < Len(b) \/ (Len(a) = Len(b) /\ LexLess(a, b))

StripZeros(s) ==
    IF \A i \in 1..Len(s) : s[i] = 0 THEN << >>
    ELSE LET k == CHOOSE i \in 1..Len(s) : s[i] # 0 /\ \A j \in 1..(i - 1) : s[j] = 0
         IN  SubSeq(s, k, Len(s))

\* a - b for a >= b: position i borrows when the digits below it are less
\* in a than in b
DigSub(a, b) ==
    LET n == Len(a)
        pb == [i \in 1..(n - Len(b)) |-> 0] \o b
        borrow(i) == IF LexLess(SubSeq(a, i + 1, n), SubSeq(pb, i + 1, n)) THEN 1 ELSE 0
    IN  StripZeros([i \in 1..n |-> (a[i] - pb[i] - borrow(i) + 10) % 10])

DigDiv10(a) == IF Len(a) <= 1 THEN << >> ELSE SubSeq(a, 1, Len(a) - 1)
DigTimes10(a) == IF a = << >> THEN << >> ELSE Append(a, 0)

RECURSIVE DigAdd(_, _)
DigAdd(a, i) ==
    IF i = 0 THEN a
    ELSE IF a = << >> THEN Append(DigAdd(<< >>, i \div 10), i % 10)
    ELSE LET t == a[Len(a)] + i
         IN  Append(DigAdd(SubSeq(a, 1, Len(a) - 1), t \div 10), t % 10)

\* for (; man1 > man2; man1 -= man2, ++i): the remainder and the count
RECURSIVE QuotientDigit(_, _, _)
QuotientDigit(man1, man2, i) ==
    IF DigLess(man2, man1) THEN QuotientDigit(DigSub(man1, man2), man2, i + 1)
    ELSE [man1 |-> man1, i |-> i]

\* while (man2 > man1) { man2 /= 10; exp2++; }
RECURSIVE AlignDown(_, _, _)
AlignDown(man1, man2, exp2) ==
    IF DigLess(man1, man2) THEN AlignDown(man1, DigDiv10(man2), exp2 + 1)
    ELSE [man2 |-> man2, exp2 |-> exp2]

\* while (man2 < man1) { if (man2*10 > man1) break; man2 *= 10; exp2--; }
RECURSIVE AlignUp(_, _, _)
AlignUp(man1, man2, exp2) ==
    IF DigLess(man2, man1) /\ ~DigLess(man1, DigTimes10(man2))
    THEN AlignUp(man1, DigTimes10(man2), exp2 - 1)
    ELSE [man2 |-> man2, exp2 |-> exp2]

\* while (man2 > 0): one digit of man3 a turn
RECURSIVE LongDivide(_, _, _, _)
LongDivide(man1, man2, man3, exp3) ==
    IF man2 = << >> THEN [man3 |-> man3, exp3 |-> exp3]
    ELSE LET q == QuotientDigit(man1, man2, 0)
             m3 == DigAdd(DigTimes10(man3), q.i)
         IN  IF DigDiv10(man2) = << >> THEN [man3 |-> m3, exp3 |-> exp3]
             ELSE LongDivide(q.man1, DigDiv10(man2), m3, exp3 - 1)

\* the float float_divide returns: its mantissa is a digit sequence
DivZero == [b63 |-> FALSE, sign |-> 0, e |-> 0, digits |-> << >>]
DivFloat(neg, exponent, digits) ==
    [b63 |-> exponent > maxExponent \/ exponent < minExponent, sign |-> IF neg THEN 0 ELSE 1,
     e |-> exponent + ExponentBias, digits |-> digits]
DivOk(f) == [err |-> 0, f |-> f]
DivErr(code) == [err |-> code, f |-> DivZero]

\* the two loops that bring man3 into [minMantissa, maxMantissa], and the
\* assembly of the result; set_exponent outside its range leaves an error
\* code that set_mantissa then adds to: a negative int64
DivNormalize(neg3, man3, exp3) ==
    LET up == IF Len(man3) < MantissaDigits THEN MantissaDigits - Len(man3) ELSE 0
        down == IF Len(man3) > MantissaDigits THEN Len(man3) - MantissaDigits ELSE 0
    IN  IF man3 = << >> THEN DivOk(DivZero)
        ELSE IF up > 0 /\ exp3 - up < minExponent THEN DivOk(DivZero)
        ELSE IF down > 0 /\ exp3 + down > maxExponent THEN DivErr(INVALID_FLOAT)
        ELSE DivOk(DivFloat(neg3, exp3 - up + down,
                            SubSeq(man3, 1, Len(man3) - down) \o [i \in 1..up |-> 0]))

\* float_divide_internal; a float that passes RETURN_IF_INVALID_FLOAT has its
\* mantissa in range, so the two loops on man1 do not turn
float_divide_internal(float1, float2) ==
    IF IsInvalidFloat(float1) \/ IsInvalidFloat(float2) THEN DivErr(INVALID_FLOAT)
    ELSE IF float2 = FloatZero THEN DivErr(DIVISION_BY_ZERO)
    ELSE IF float1 = FloatZero THEN DivOk(DivZero)
    ELSE LET man1 == ManDigits(get_mantissa(float1))
             down == AlignDown(man1, ManDigits(get_mantissa(float2)), get_exponent(float2))
             al == AlignUp(man1, down.man2, down.exp2)
             d == LongDivide(man1, al.man2, << >>, get_exponent(float1) - al.exp2)
         IN  IF down.man2 = << >> THEN DivErr(DIVISION_BY_ZERO)
             ELSE DivNormalize(is_negative(float1) # is_negative(float2), d.man3, d.exp3)

float_invert_calc(float1) ==
    IF float1 = FloatZero THEN DivErr(DIVISION_BY_ZERO)
    ELSE float_divide_internal(float_one_internal, float1)

\* a division keeps its operands in lastCall: a is float1, b is float2
DivCall(fn, r, float1, float2) ==
    /\ pc = "running"
    /\ lastCall' = Call(fn, r.err, << >>, r.f, float1, float2)
    /\ lastCommit' = NoCommit
    /\ UNCHANGED persisted
    /\ UNCHANGED <<ledgerVars, stateVars, emitVars, guardVars, slotVars, exitVars, runVars>>

float_divide(float1, float2) ==
    DivCall("float_divide", float_divide_internal(float1, float2), float1, float2)
float_invert(float1) ==
    DivCall("float_invert", float_invert_calc(float1), float_one_internal, float1)

\* float_sto_set before it reads: the code it returns, or 0 to go on.  hdr is
\* the length of the field header the first byte announces.
float_sto_set_check(read_len, hdr) ==
    IF read_len < 8 THEN NOT_AN_OBJECT
    ELSE IF read_len > 8 /\ hdr = 3 /\ read_len < 11 THEN NOT_AN_OBJECT
    ELSE IF read_len > 8 /\ hdr = 2 /\ read_len < 10 THEN NOT_AN_OBJECT
    ELSE 0

\* the amount float_sto_set decodes: sto is [neg, exp, m], the sign bit, the
\* exponent (field minus 97) and the mantissa bits found behind the header
float_sto_set_calc(sto) ==
    IF sto.m.d = 0 THEN Ok(FloatZero)
    ELSE hook_float_set(sto.exp, sto.neg, sto.m)

\* the outcomes of a read of host memory beyond the guest's: the bytes found
\* there are used, or the access faults
WildReads == {"garbage", "fault"}

\* float_sto_set.  There is no bounds test: the first byte is read when
\* read_len exceeds 8, then the eight bytes behind the header, wherever they
\* lie.  Bytes outside the guest memory hold anything (sto is then any
\* amount), or the read faults.
float_sto_set(read_ptr, read_len, hdr, sto, wild) ==
    LET code == float_sto_set_check(read_len, hdr)
        used == (IF read_len > 8 THEN hdr ELSE 0) + 8
        wildRead == \/ read_len > 8 /\ read_ptr >= MemoryLength
                    \/ code = 0 /\ read_ptr + used > MemoryLength
        r == IF code # 0 THEN Err(code) ELSE float_sto_set_calc(sto)
        faults == wildRead /\ wild = "fault"
    IN  /\ pc = "running"
        /\ ~wildRead => wild = "garbage"
        /\ pc' = IF faults THEN "faulted" ELSE pc
        /\ lastCall' = Call("float_sto_set", IF faults THEN 0 ELSE r.err,
                            IF faults THEN <<"fault">>
                            ELSE IF read_len >= 8 THEN <<"read">> ELSE << >>,
                            IF faults THEN FloatZero ELSE r.f, read_ptr, read_len)
        /\ lastCommit' = NoCommit
        /\ UNCHANGED <<instructionCount, callback, runs, persisted>>
        /\ UNCHANGED <<ledgerVars, stateVars, emitVars, guardVars, slotVars, exitVars>>

\* float_sto's field_code: [type, field], the high and the low 16 bits
XrpCode == [type |-> 0, field |-> 0]
ShortCode == [type |-> 65535, field |-> 65535]

\* the field header float_sto writes in front of the amount
FieldHeader(code) ==
    IF code = XrpCode \/ code = ShortCode THEN << >>
    ELSE IF code.field < 16 /\ code.type < 16 THEN <<code.type * 16 + code.field>>
    ELSE IF code.field >= 16 /\ code.type < 16 THEN <<code.type * 16, code.field % 256>>
    ELSE IF code.field < 16 /\ code.type >= 16 THEN <<code.field * 16, code.type % 256>>
    ELSE <<0, code.type % 256, code.field % 256>>

\* the mantissa brought to exponent -6 (drops): float_sto's two loops divide
\* it by ten -6 - exp times, or multiply it by ten exp + 6 times
XrpDrops(man, exp) ==
    LET n == -6 - exp
    IN  IF n <= 0 THEN Man(man.d, man.k - n)
        ELSE IF n <= man.k THEN Man(man.d, man.k - n)
        ELSE IF n = man.k + 1 THEN Man(man.d \div 10, 0)
        ELSE Man(0, 0)

\* the eight amount bytes, by the fields a reader takes from them: b0 is the
\* first byte, e2 the two high bits of the second, m the 54 bits below them
float_sto_amount(float1, is_xrp) ==
    LET man == get_mantissa(float1)
        exp == get_exponent(float1)
        neg == is_negative(float1)
    IN  IF is_xrp THEN [b0 |-> IF neg THEN 0 ELSE 64, e2 |-> 0, m |-> XrpDrops(man, exp)]
        ELSE IF man.d = 0 THEN [b0 |-> 192, e2 |-> 0, m |-> Man(0, 0)]
        ELSE [b0 |-> (IF neg THEN 128 ELSE 192) + ((exp + ExponentBias) \div 4),
              e2 |-> (exp + ExponentBias) % 4,
              m |-> man]

\* the drops of the XRP form take bits 0..53 only when they have at most 16
\* decimal digits; the model takes the calls in which they do
float_sto_defined(float1, code) ==
    (code = XrpCode /\ ~IsInvalidFloat(float1)) =>
        NumDigits(XrpDrops(get_mantissa(float1), get_exponent(float1))) <= MantissaDigits

\* what float_sto writes, [hdr, amt, tail], tail being the length of the
\* currency and issuer copied behind the amount
NoSto == [hdr |-> << >>, amt |-> [b0 |-> 0, e2 |-> 0, m |-> Man(0, 0)], tail |-> 0]

\* float_sto: the value returned and the bytes written, as [ret, sto]
float_sto_calc(write_ptr, write_len, cread_ptr, cread_len, iread_ptr, iread_len, float1, code) ==
    LET is_xrp == code = XrpCode
        is_short == code = ShortCode
        plain == is_xrp \/ is_short
        hdr == FieldHeader(code)
        bytes_needed == 8 + Len(hdr) + (IF plain THEN 0 ELSE 40)
        refuse(c) == [ret |-> c, sto |-> NoSto]
    IN  IF IsInvalidFloat(float1) THEN refuse(INVALID_FLOAT)
        ELSE IF NOT_IN_BOUNDS(write_ptr, write_len, MemoryLength) THEN refuse(OUT_OF_BOUNDS)
        ELSE IF ~plain /\ cread_ptr = 0 /\ cread_len = 0 /\ iread_ptr = 0 /\ iread_len = 0
             THEN refuse(INVALID_ARGUMENT)
        ELSE IF ~plain /\ (\/ NOT_IN_BOUNDS(cread_ptr, cread_len, MemoryLength)
                           \/ NOT_IN_BOUNDS(iread_ptr, iread_len, MemoryLength))
             THEN refuse(OUT_OF_BOUNDS)
        ELSE IF ~plain /\ (cread_len # 20 \/ iread_len # 20) THEN refuse(INVALID_ARGUMENT)
        ELSE IF bytes_needed > write_len THEN refuse(TOO_SMALL)
        ELSE [ret |-> bytes_needed,
              sto |-> [hdr |-> hdr, amt |-> float_sto_amount(float1, is_xrp),
                       tail |-> IF plain THEN 0 ELSE 40]]

\* lastCall of float_sto: key is the field code, out the float and the bytes
\* written, a and b the write pair
float_sto(write_ptr, write_len, cread_ptr, cread_len, iread_ptr, iread_len, float1, code) ==
    LET r == float_sto_calc(write_ptr, write_len, cread_ptr, cread_len,
                            iread_ptr, iread_len, float1, code)
    IN  /\ pc = "running"
        /\ float_sto_defined(float1, code)
        /\ lastCall' = Call("float_sto", r.ret, <<code.type, code.field>>,
                            [f |-> float1, sto |-> r.sto], write_ptr, write_len)
        /\ lastCommit' = NoCommit
        /\ UNCHANGED persisted
        /\ UNCHANGED <<ledgerVars, stateVars, emitVars, guardVars, slotVars, exitVars, runVars>>

\* float_sto_set on bytes float_sto wrote: the header length the first byte
\* announces (3 for 0x00, 2 when one nibble is 0, else 1)
HeaderSkip(byte) ==
    LET hi == byte \div 16
        lo == byte % 16
    IN  IF hi = 0 /\ lo = 0 THEN 3 ELSE IF hi = 0 \/ lo = 0 THEN 2 ELSE 1

\* the sign, exponent and mantissa float_sto_set takes from the amount bytes
StoRead(amt) ==
    [neg |-> (amt.b0 \div 64) % 2 = 0,
     exp |-> (amt.b0 % 64) * 4 + amt.e2 - ExponentBias,
     m |-> amt.m]

\* float_sto_set(write_ptr, n) after float_sto returned n: the header read
\* back is the header written when the field code has a type and a field
float_sto_set_back ==
    /\ lastCall.fn = "float_sto"
    /\ lastCall.ret > 0
    /\ LET sto == lastCall.out.sto
           hdr == IF sto.hdr = << >> THEN 1 ELSE HeaderSkip(sto.hdr[1])
       IN  /\ sto.hdr # << >> => hdr = Len(sto.hdr)
           /\ float_sto_set(lastCall.a, lastCall.ret, hdr, StoRead(sto.amt), "garbage")

\* util_sha512h.  Only the write pair is tested; the hash is taken over
\* read_len bytes at read_ptr wherever they lie.
util_sha512h(write_ptr, write_len, read_ptr, read_len, wild) ==
    LET code == IF write_len < 32 THEN TOO_SMALL
                ELSE IF NOT_IN_BOUNDS(write_ptr, write_len, MemoryLength) THEN OUT_OF_BOUNDS
                ELSE 0
        wildRead == code = 0 /\ read_len > 0 /\ read_ptr + read_len > MemoryLength
        faults == wildRead /\ wild = "fault"
        ret == IF code # 0 THEN code
               ELSE WRITE_WASM_MEMORY_AND_RETURN(write_ptr, 32, [i \in 1..32 |-> 0],
                                                 MemoryLength).ret
    IN  /\ pc = "running"
        /\ ~wildRead => wild = "garbage"
        /\ pc' = IF faults THEN "faulted" ELSE pc
        /\ lastCall' = Call("util_sha512h", IF faults THEN 0 ELSE ret,
                            IF faults THEN <<"fault">>
                            ELSE IF code = 0 THEN <<"read", "write">> ELSE << >>,
                            <<write_ptr, write_len>>, read_ptr, read_len)
        /\ lastCommit' = NoCommit
        /\ UNCHANGED <<instructionCount, callback, runs, persisted>>
        /\ UNCHANGED <<ledgerVars, stateVars, emitVars, guardVars, slotVars, exitVars>>

(***************************************************************************)
(* The serialized-object parser and editor: get_stobject_length,           *)
(* sto_emplace, sto_erase, sto_validate.  An object is the sequence of its *)
(* bytes; offsets count from 0 as the pointers of the code count from      *)
(* start.                                                                  *)
(***************************************************************************)
PARSE_ERROR == -18

\* the iterations of the field loops (i < 1024 in the source), scaled
StoIterations == 3
\* the deepest recursion get_stobject_length enters
StoMaxDepth == 10

\* *(start + i)
ByteAt(b, i) == b[i + 1]

\* get_stobject_length returns a negative code, or the length with the out
\* parameters: [len, type, field, payload_start, payload_length]
StFail(code) ==
    [len |-> code, type |-> -1, field |-> -1, payload_start |-> -1, payload_length |-> -1]

\* the field header at start: [ok, type, field, upto]
StHeader(b, start) ==
    LET end == Len(b)
        high == ByteAt(b, start) \div 16
        low == ByteAt(b, start) % 16
        upto == start + 1
        bad == [ok |-> FALSE, type |-> -1, field |-> -1, upto |-> upto]
    IN  IF upto >= end THEN bad
        ELSE IF high > 0 /\ low > 0 THEN
            [ok |-> TRUE, type |-> high, field |-> low, upto |-> upto]
        ELSE IF high > 0 THEN
            [ok |-> TRUE, type |-> high, field |-> ByteAt(b, upto), upto |-> upto + 1]
        ELSE IF low > 0 THEN
            [ok |-> TRUE, type |-> ByteAt(b, upto), field |-> low, upto |-> upto + 1]
        ELSE IF upto + 1 >= end THEN bad
        ELSE [ok |-> TRUE, type |-> ByteAt(b, upto), field |-> ByteAt(b, upto + 1),
              upto |-> upto + 2]

\* the length prefix of a variable-length field at upto: [ok, length, upto]
StVlLength(b, upto) ==
    LET end == Len(b)
        l1 == ByteAt(b, upto)
        u1 == upto + 1
        bad == [ok |-> FALSE, length |-> -1, upto |-> u1]
    IN  IF u1 >= end THEN bad
        ELSE IF l1 < 193 THEN [ok |-> TRUE, length |-> l1, upto |-> u1]
        ELSE IF l1 < 241 THEN
            IF u1 + 1 > end THEN bad
            ELSE [ok |-> TRUE, length |-> (l1 - 193) * 256 + ByteAt(b, u1) + 193,
                  upto |-> u1 + 1]
        ELSE IF u1 + 1 >= end THEN bad
        ELSE IF u1 + 2 >= end THEN bad
        ELSE [ok |-> TRUE,
              length |-> (l1 - 241) * 65536 + 12481 + ByteAt(b, u1) * 256 + ByteAt(b, u1 + 1),
              upto |-> u1 + 2]

\* the width of a fixed-width type, -1 for the others
StFixedWidth(type) ==
    IF type = 1 THEN 2 ELSE IF type = 2 THEN 4 ELSE IF type = 3 THEN 8
    ELSE IF type = 4 THEN 16 ELSE IF type = 5 THEN 32 ELSE IF type = 16 THEN 1
    ELSE IF type = 17 THEN 20 ELSE -1

RECURSIVE get_stobject_length(_, _, _)
RECURSIVE StInner(_, _, _, _, _, _, _)

\* the loop over the fields of an object or array that began at start, whose
\* payload begins at payload_start; upto is the next inner field
StInner(b, start, h, payload_start, upto, i, recursion_depth) ==
    IF i >= StoIterations THEN StFail(-5)
    ELSE LET sub == get_stobject_length(b, upto, recursion_depth + 1)
             next == upto + sub.len
         IN  IF sub.len < 0 THEN StFail(-1)
             ELSE IF next >= Len(b) THEN StFail(-1)
             ELSE IF \/ ByteAt(b, next) = 225 /\ h.type = 14
                     \/ ByteAt(b, next) = 241 /\ h.type = 15
                  THEN [len |-> next + 1 - start, type |-> h.type, field |-> h.field,
                        payload_start |-> payload_start,
                        payload_length |-> next - start - payload_start]
             ELSE StInner(b, start, h, payload_start, next, i + 1, recursion_depth)

get_stobject_length(b, start, recursion_depth) ==
    IF recursion_depth > StoMaxDepth THEN StFail(-4)
    ELSE LET end == Len(b)
             h == StHeader(b, start)
             is_vl == h.type \in {7, 8, 18, 19}
             vl == StVlLength(b, h.upto)
             upto == IF is_vl THEN vl.upto ELSE h.upto
             length == IF is_vl THEN vl.length
                       ELSE IF h.type = 6 THEN
                           (IF ByteAt(b, h.upto) \div 64 = 1 THEN 8 ELSE 48)
                       ELSE StFixedWidth(h.type)
         IN  IF ~h.ok \/ h.upto >= end THEN StFail(-1)
             ELSE IF h.type < 1 \/ h.type > 19 \/ (h.type >= 9 /\ h.type <= 13) THEN StFail(-2)
             ELSE IF is_vl /\ ~vl.ok THEN StFail(-1)
             ELSE IF length > -1 THEN
                 [len |-> length + (upto - start), type |-> h.type, field |-> h.field,
                  payload_start |-> upto - start, payload_length |-> length]
             ELSE IF h.type = 15 \/ h.type = 14 THEN
                 StInner(b, start, h, upto - start, upto, 0, recursion_depth)
             ELSE StFail(-3)

\* (type << 16) + field
StFieldCode(r) == r.type * 65536 + r.field

\* sto_emplace's search for the place of field_id: [err, inject_start, inject_end]
RECURSIVE EmplaceScan(_, _, _, _)
EmplaceScan(b, upto, i, field_id) ==
    IF i >= StoIterations \/ upto >= Len(b)
    THEN [err |-> 0, inject_start |-> Len(b), inject_end |-> Len(b)]
    ELSE LET r == get_stobject_length(b, upto, 0)
         IN  IF r.len < 0
             THEN [err |-> PARSE_ERROR, inject_start |-> 0, inject_end |-> 0]
             ELSE IF StFieldCode(r) = field_id
             THEN [err |-> 0, inject_start |-> upto, inject_end |-> upto + r.len]
             ELSE IF StFieldCode(r) > field_id
             THEN [err |-> 0, inject_start |-> upto, inject_end |-> upto]
             ELSE EmplaceScan(b, upto + r.len, i + 1, field_id)

\* the largest source object and field sto_emplace and sto_erase take
StoMaxObject == 16384
StoMaxField == 4096

\* sto_emplace: [ret, out].  sread and fread are the bytes at the two read
\* pairs.  The write buffer holds sread_len + fread_len bytes, so each of
\* the three copies is written whole.
sto_emplace_result(write_ptr, write_len, sread_ptr, sread, fread_ptr, fread, scan) ==
    LET refuse(c) == [ret |-> c, out |-> << >>]
        end == Len(sread)
        out == SubSeq(sread, 1, scan.inject_start) \o fread \o
               (IF end - scan.inject_end > 0
                THEN SubSeq(sread, scan.inject_end + 1, end) ELSE << >>)
    IN  IF NOT_IN_BOUNDS(write_ptr, write_len, MemoryLength) THEN refuse(OUT_OF_BOUNDS)
        ELSE IF NOT_IN_BOUNDS(sread_ptr, Len(sread), MemoryLength) THEN refuse(OUT_OF_BOUNDS)
        ELSE IF NOT_IN_BOUNDS(fread_ptr, Len(fread), MemoryLength) THEN refuse(OUT_OF_BOUNDS)
        ELSE IF write_len < Len(sread) + Len(fread) THEN refuse(TOO_SMALL)
        ELSE IF Len(sread) > StoMaxObject THEN refuse(TOO_BIG)
        ELSE IF Len(fread) > StoMaxField THEN refuse(TOO_BIG)
        ELSE IF scan.err # 0 THEN refuse(scan.err)
        ELSE [ret |-> Len(out), out |-> out]

sto_emplace_calc(write_ptr, write_len, sread_ptr, sread, fread_ptr, fread, field_id) ==
    sto_emplace_result(write_ptr, write_len, sread_ptr, sread, fread_ptr, fread,
                       EmplaceScan(sread, 0, 0, field_id))

\* sto_erase's search: the last field of code field_id among those the loop
\* reaches, as [err, found, erase_start, erase_end]
RECURSIVE EraseScan(_, _, _, _, _)
EraseScan(b, upto, i, field_id, sofar) ==
    IF i >= StoIterations \/ upto >= Len(b) THEN sofar
    ELSE LET r == get_stobject_length(b, upto, 0)
         IN  IF r.len < 0 THEN [sofar EXCEPT !.err = PARSE_ERROR]
             ELSE EraseScan(b, upto + r.len, i + 1, field_id,
                            IF StFieldCode(r) = field_id
                            THEN [err |-> 0, found |-> TRUE, erase_start |-> upto,
                                  erase_end |-> upto + r.len]
                            ELSE sofar)

\* sto_erase: [ret, out]
sto_erase_result(write_ptr, write_len, read_ptr, read, scan) ==
    LET refuse(c) == [ret |-> c, out |-> << >>]
        end == Len(read)
        out == SubSeq(read, 1, scan.erase_start) \o
               (IF end - scan.erase_end > 0
                THEN SubSeq(read, scan.erase_end + 1, end) ELSE << >>)
    IN  IF NOT_IN_BOUNDS(write_ptr, write_len, MemoryLength) THEN refuse(OUT_OF_BOUNDS)
        ELSE IF NOT_IN_BOUNDS(read_ptr, Len(read), MemoryLength) THEN refuse(OUT_OF_BOUNDS)
        ELSE IF Len(read) > StoMaxObject THEN refuse(TOO_BIG)
        ELSE IF write_len < Len(read) THEN refuse(TOO_SMALL)
        ELSE IF scan.err # 0 THEN refuse(scan.err)
        ELSE IF scan.found /\ scan.erase_end <= end THEN [ret |-> Len(out), out |-> out]
        ELSE refuse(DOESNT_EXIST)

sto_erase_calc(write_ptr, write_len, read_ptr, read, field_id) ==
    sto_erase_result(write_ptr, write_len, read_ptr, read,
                     EraseScan(read, 0, 0, field_id,
                               [err |-> 0, found |-> FALSE, erase_start |-> 0, erase_end |-> 0]))

\* sto_validate's loop: 0 when a field does not parse, else 1
RECURSIVE ValidateScan(_, _, _)
ValidateScan(b, upto, i) ==
    IF i >= StoIterations \/ upto >= Len(b) THEN 1
    ELSE LET r == get_stobject_length(b, upto, 0)
         IN  IF r.len < 0 THEN 0 ELSE ValidateScan(b, upto + r.len, i + 1)

sto_validate_calc(read_ptr, read) ==
    IF NOT_IN_BOUNDS(read_ptr, Len(read), MemoryLength) THEN OUT_OF_BOUNDS
    ELSE IF Len(read) < 1 THEN TOO_SMALL
    ELSE ValidateScan(read, 0, 0)

\* a parser call: lastCall.key is <<field_id, write_ptr, write_len>>, out the
\* bytes written, a the source object read and b the field read
StoCall(fn, ret, key, out, a, b) ==
    /\ pc = "running"
    /\ lastCall' = Call(fn, ret, key, out, a, b)
    /\ lastCommit' = NoCommit
    /\ UNCHANGED persisted
    /\ UNCHANGED <<ledgerVars, stateVars, emitVars, guardVars, slotVars, exitVars, runVars>>

\* an editor call that ended with r, [ret, out]
StoEdit(fn, r, key, a, b) == StoCall(fn, r.ret, key, r.out, a, b)

sto_emplace(write_ptr, write_len, sread_ptr, sread, fread_ptr, fread, field_id) ==
    StoEdit("sto_emplace",
            sto_emplace_calc(write_ptr, write_len, sread_ptr, sread, fread_ptr, fread, field_id),
            <<field_id, write_ptr, write_len>>, sread, fread)

sto_erase(write_ptr, write_len, read_ptr, read, field_id) ==
    StoEdit("sto_erase", sto_erase_calc(write_ptr, write_len, read_ptr, read, field_id),
            <<field_id, write_ptr, write_len>>, read, << >>)

sto_validate(read_ptr, read) ==
    StoCall("sto_validate", sto_validate_calc(read_ptr, read), <<0, read_ptr, Len(read)>>,
            << >>, read, << >>)

(***************************************************************************)
(* setHookState and commitChangesToLedger.                                 *)
(***************************************************************************)
\* the part of the view setHookState works on
Ledger(states, count, owner, dir) ==
    [states |-> states, count |-> count, owner |-> owner, dir |-> dir]

\* adjustOwnerCount: the owner count never goes below zero
adjustOwnerCount(owner, amount) == IF owner + amount < 0 THEN 0 ELSE owner + amount

\* sfHookStateCount as the delete branch of setHookState stores it (line 438)
StateCountAfterDelete(stateCount) == COMPUTE_HOOK_DATA_OWNER_COUNT(stateCount)

\* a reserve test that never refuses
ReserveShort_Never(bal, owner) == FALSE

\* lines 457-461: the balance is below the reserve for `owner` owned objects
ReserveShort(bal, owner) == bal < accountReserve(owner)

\* setHookState: [ter, ledger]
setHookState(L, key, data) ==
    LET oldStateReserve == COMPUTE_HOOK_DATA_OWNER_COUNT(L.count)
        exists == key \in DOMAIN L.states
    IN  IF Len(data) > maxHookStateDataSize
        THEN [ter |-> "temHOOK_DATA_TOO_LARGE", ledger |-> L]
        ELSE IF Len(data) = 0
        THEN IF ~exists THEN [ter |-> "tesSUCCESS", ledger |-> L]
             ELSE IF key \notin L.dir THEN [ter |-> "tefBAD_LEDGER", ledger |-> L]
             ELSE LET stateCount == IF L.count > 0 THEN L.count - 1 ELSE L.count
                  IN  [ter |-> "tesSUCCESS",
                       ledger |-> Ledger(
                           Drop(L.states, key),
                           StateCountAfterDelete(stateCount),
                           IF COMPUTE_HOOK_DATA_OWNER_COUNT(stateCount) < oldStateReserve
                           THEN adjustOwnerCount(L.owner, -1) ELSE L.owner,
                           L.dir \ {key})]
        ELSE IF exists
        THEN [ter |-> "tesSUCCESS",
              ledger |-> [L EXCEPT !.states = Put(L.states, key, data)]]
        ELSE LET stateCount == L.count + 1
                 grows == COMPUTE_HOOK_DATA_OWNER_COUNT(stateCount) > oldStateReserve
             IN  IF grows /\ ReserveShort(balance, L.owner + 1)
                 THEN [ter |-> "tecINSUFFICIENT_RESERVE", ledger |-> L]
                 ELSE LET full == Cardinality(L.dir) + ownerDirOther >= OwnerDirCap
                      IN  [ter |-> IF full THEN "tecDIR_FULL" ELSE "tesSUCCESS",
                           ledger |-> Ledger(
                               Put(L.states, key, data),
                               stateCount,
                               IF grows THEN adjustOwnerCount(L.owner, 1) ELSE L.owner,
                               IF full THEN L.dir ELSE L.dir \cup {key})]

\* one call of hook::setHookState on the view; lastCall.ret is its TER
setHookStateCall(key, data) ==
    LET r == setHookState(Ledger(hookStates, hookStateCount, ownerCount, ownerDir), key, data)
    IN  /\ hookStates' = r.ledger.states
        /\ hookStateCount' = r.ledger.count
        /\ ownerCount' = r.ledger.owner
        /\ ownerDir' = r.ledger.dir
        /\ UNCHANGED slotVars
        /\ lastCall' = Call("setHookState", r.ter, key, data, hookStateCount, ownerCount)
        /\ lastCommit' = NoCommit
        /\ UNCHANGED <<ownerDirOther, balance, emittedDir, viewOpen, hookMeta, otxn, persisted>>
        /\ UNCHANGED <<stateVars, emitVars, guardVars, exitVars, runVars>>

\* uint256 order of two padded keys
KeyLess(a, b) ==
    \E i \in 1..KeyWidth :
        /\ a[i] < b[i]
        /\ \A j \in 1..(i - 1) : a[j] = b[j]

\* the keys of a std::map in iteration order
RECURSIVE SortedKeys(_)
SortedKeys(S) ==
    IF S = {} THEN << >>
    ELSE LET m == CHOOSE x \in S : \A y \in S \ {x} : KeyLess(x, y)
         IN  <<m>> \o SortedKeys(S \ {m})

\* a commit that would write every cache entry, read or written
IsModified_Always(entry) == TRUE

\* the test commitChangesToLedger makes before it writes a cache entry
IsModified(entry) == entry.dirty

\* lines 749-761: setHookState for every modified cache entry, its result
\* ignored; calls are the keys setHookState was called with, in order
RECURSIVE ApplyStateChanges(_, _, _)
ApplyStateChanges(L, cache, keys) ==
    IF keys = << >> THEN [ledger |-> L, change_count |-> 0, calls |-> << >>]
    ELSE LET k == Head(keys)
             L1 == IF IsModified(cache[k]) THEN setHookState(L, k, cache[k].data).ledger
                   ELSE L
             rest == ApplyStateChanges(L1, cache, Tail(keys))
         IN  [ledger |-> rest.ledger,
              change_count |-> rest.change_count + (IF IsModified(cache[k]) THEN 1 ELSE 0),
              calls |-> (IF IsModified(cache[k]) THEN <<k>> ELSE << >>) \o rest.calls]

\* an insertion that would take the whole queue or, the directory being too
\* small for it, nothing
InsertEmitted_AllOrNothing(dir, queue, emission_count) ==
    LET ids == {queue[i].id : i \in 1..Len(queue)}
    IN  IF Cardinality(dir \cup ids) > EmittedDirCap
        THEN [dir |-> dir, queue |-> queue, emission_count |-> emission_count + 1]
        ELSE [dir |-> dir \cup ids, queue |-> << >>,
              emission_count |-> emission_count + Len(queue)]

\* lines 778-820: the queue is popped into the emitted directory until an
\* append fails: [dir, queue, emission_count]
RECURSIVE InsertEmitted(_, _, _)
InsertEmitted(dir, queue, emission_count) ==
    IF queue = << >> THEN [dir |-> dir, queue |-> queue, emission_count |-> emission_count]
    ELSE LET id == Head(queue).id
         IN  IF id \in dir THEN InsertEmitted(dir, Tail(queue), emission_count)
             ELSE IF Cardinality(dir) >= EmittedDirCap
                  THEN [dir |-> dir, queue |-> queue, emission_count |-> emission_count + 1]
                  ELSE InsertEmitted(dir \cup {id}, Tail(queue), emission_count + 1)

\* lines 824-856: the originating transaction leaves the emitted directory
RemoveEmitted(dir, tx) == IF tx.has_ed THEN dir \ {tx.id} ELSE dir

HookHash == "hookHash"
HookSetTxnID == "hookSetTxnID"

\* the 32 bytes of a uint256 of the context
Uint256Bytes(h) == [i \in 1..32 |-> IF h = HookHash THEN 1 ELSE 2]

\* hook_hash: [ret, out]
hook_hash_calc(write_ptr, write_len) ==
    IF write_len < 32 THEN [ret |-> TOO_SMALL, out |-> << >>]
    ELSE IF NOT_IN_BOUNDS(write_ptr, write_len, MemoryLength)
    THEN [ret |-> OUT_OF_BOUNDS, out |-> << >>]
    ELSE WRITE_WASM_MEMORY_AND_RETURN(write_ptr, write_len, Uint256Bytes(HookHash), MemoryLength)

\* lines 859-875: the execution-metadata record
MetaRecord(emission_count, exec_index, change_count) ==
    [HookResult |-> exitType,
     HookHash |-> HookSetTxnID,
     HookAccount |-> HookAccount,
     HookReturnCode |-> [negative |-> exitCode < 0,
                         magnitude |-> IF exitCode < 0 THEN -exitCode ELSE exitCode],
     HookReturnString |-> exitReason,
     HookInstructionCount |-> instructionCount,
     HookEmitCount |-> emission_count,
     HookExecutionIndex |-> exec_index,
     HookStateChangeCount |-> change_count]

\* a commit that went on to the metadata on an open view too
StopsOnOpenView_Never(open) == FALSE

\* line 766: an open view ends the commit before emissions and metadata
StopsOnOpenView(open) == open

HasApply(mode) == (mode % 2) = 1
HasRemove(mode) == (mode \div 2) % 2 = 1

commitChangesToLedger(cclMode) ==
    LET L0 == Ledger(hookStates, hookStateCount, ownerCount, ownerDir)
        st == IF cclMode # 0 /\ HasApply(cclMode)
              THEN ApplyStateChanges(L0, changedState, SortedKeys(DOMAIN changedState))
              ELSE [ledger |-> L0, change_count |-> 0, calls |-> << >>]
        rest == cclMode # 0 /\ ~StopsOnOpenView(viewOpen)
        em == IF rest /\ HasApply(cclMode) THEN InsertEmitted(emittedDir, emittedTxn, 0)
              ELSE [dir |-> emittedDir, queue |-> emittedTxn, emission_count |-> 0]
        dir == IF rest /\ HasRemove(cclMode) THEN RemoveEmitted(em.dir, otxn) ELSE em.dir
    IN  /\ hookStates' = st.ledger.states
        /\ hookStateCount' = st.ledger.count
        /\ ownerCount' = st.ledger.owner
        /\ ownerDir' = st.ledger.dir
        /\ emittedDir' = dir
        /\ emittedTxn' = em.queue
        /\ hookMeta' = IF rest
                       THEN Append(hookMeta, MetaRecord(em.emission_count, Len(hookMeta),
                                                        st.change_count))
                       ELSE hookMeta
        /\ lastCommit' = [mode |-> cclMode, metaBefore |-> Len(hookMeta),
                          statesBefore |-> hookStates, emittedBefore |-> emittedDir,
                          queueBefore |-> emittedTxn, cacheBefore |-> changedState,
                          setCalls |-> st.calls, done |-> TRUE]
        /\ persisted' = IF cclMode # 0 /\ HasApply(cclMode) /\ exitType = ACCEPT
                        THEN [k \in {x \in DOMAIN staged : staged[x] # << >>} |-> staged[k]]
                        ELSE EmptyMap
        /\ UNCHANGED <<ownerDirOther, balance, viewOpen, otxn>>

(***************************************************************************)
(* The engine and hook::apply around the guest's run.                      *)
(***************************************************************************)
InstrCount == 7

\* the guest returns from its entry point: runWasmFile succeeds
GuestReturn ==
    /\ pc = "running"
    /\ instructionCount' = InstrCount
    /\ pc' = "returned"
    /\ UNCHANGED slotVars
    /\ lastCall' = NoCall
    /\ lastCommit' = NoCommit
    /\ UNCHANGED <<ledgerVars, stateVars, emitVars, guardVars, exitVars, callback, runs,
                   persisted>>

\* the engine reports an error above 1: lines 551-558, apply returns at once
EngineError ==
    /\ pc = "running"
    /\ exitType' = WASM_ERROR
    /\ pc' = "finished"
    /\ UNCHANGED slotVars
    /\ lastCall' = Call("engine_error", 0, << >>, << >>, 0, 0)
    /\ lastCommit' = NoCommit
    /\ UNCHANGED <<ledgerVars, stateVars, emitVars, guardVars, exitCode, exitReason,
                   acceptDone, instructionCount, callback, runs, persisted>>

\* a callback that applied whatever its exit type
CallbackMode_AlwaysApply(exit) == cclREMOVE + cclAPPLY

\* lines 570-573: the mode of a callback's commit
CallbackMode(exit) == IF exit = ACCEPT THEN cclREMOVE + cclAPPLY ELSE cclREMOVE

\* lines 561-577: after the run a callback commits, then apply returns
ApplyFinish ==
    /\ pc \in {"returned", "terminated"}
    /\ IF callback
       THEN commitChangesToLedger(CallbackMode(exitType))
       ELSE /\ lastCommit' = NoCommit
            /\ UNCHANGED <<ledgerVars, emittedTxn, persisted>>
    /\ pc' = "finished"
    /\ UNCHANGED slotVars
    /\ lastCall' = NoCall
    /\ UNCHANGED <<stateVars, expected_etxn_count, nonce_counter, nonce_used, fee_base,
                   guardVars, exitVars, instructionCount, callback, runs>>

\* the transactor commits the result of a hook run with a mode of its choice
TransactorCommit(cclMode) ==
    /\ pc = "finished"
    /\ ~callback
    /\ commitChangesToLedger(cclMode)
    /\ pc' = "committed"
    /\ UNCHANGED slotVars
    /\ lastCall' = NoCall
    /\ UNCHANGED <<stateVars, expected_etxn_count, nonce_counter, nonce_used, fee_base,
                   guardVars, exitVars, instructionCount, callback, runs>>

\* the next transaction on the account starts a run with a new HookContext
NewRun(isCallback, tx) ==
    /\ pc \in {"finished", "committed"}
    /\ runs < MaxRuns
    /\ runs' = runs + 1
    /\ otxn' = tx
    /\ hookMeta' = << >>
    /\ FreshContext(isCallback)
    /\ UNCHANGED <<hookStates, hookStateCount, ownerCount, ownerDir, ownerDirOther,
                   balance, emittedDir, viewOpen, persisted>>


(***************************************************************************)
(* The state subsystem on its own: state_set, state and state_foreign,     *)
(* interleaved with etxn_reserve, runs with the commit between them.        *)
(***************************************************************************)
InitState ==
    /\ Init
    /\ otxn = PlainOtxn
    /\ viewOpen = FALSE
    /\ ownerDirOther = 1

\* the state_set calls: <<read_ptr, data, kread_ptr, key>>
StateSetCalls ==
    { <<InPtr, d, InPtr, k>> : d \in {<< >>, <<1, 2>>}, k \in {<<1>>, <<0, 1>>, <<2>>} }
    \cup { <<0, << >>, InPtr, <<1>>>>, <<InPtr, TooLongValue, InPtr, <<1>>>>,
           <<InPtr, <<1, 2>>, NearEndPtr, <<1>>>>, <<OobPtr, <<1, 2>>, InPtr, <<1>>>>,
           <<InPtr, <<1, 2>>, InPtr, << >>>>, <<InPtr, <<1, 2>>, InPtr, LongKey>> }

\* the reads: <<write_ptr, write_len, kread_ptr, key, aread_ptr, aread_len>>
StateReadCalls ==
    { <<w[1], w[2], InPtr, k, 0, 0>> :
         w \in {<<InPtr, 2>>, <<InPtr, 1>>, <<0, 0>>}, k \in {<<1>>, <<0, 1>>, <<2>>} }
    \cup { <<OobPtr, 2, InPtr, <<1>>, 0, 0>>, <<InPtr, 2, InPtr, << >>, 0, 0>>,
           <<InPtr, 2, InPtr, LongKey, 0, 0>>, <<InPtr, 2, InPtr, <<1>>, InPtr, 20>>,
           <<InPtr, 2, InPtr, <<1>>, InPtr, 19>> }

NextState ==
    \/ \E c \in StateSetCalls : state_set(c[1], c[2], c[3], c[4])
    \/ \E c \in StateReadCalls : state_foreign(c[1], c[2], c[3], c[4], c[5], c[6])
    \/ etxn_reserve(1)
    \/ accept(0, << >>, 0)
    \/ GuestReturn
    \/ ApplyFinish
    \/ TransactorCommit(cclAPPLY + cclREMOVE)
    \/ \E cb \in BOOLEAN : NewRun(cb, PlainOtxn)

SpecState == InitState /\ [][NextState]_vars

(***************************************************************************)
(* The emission subsystem on its own: etxn_reserve, nonce, etxn_fee_base   *)
(* and emit in runs that return without a verdict and are rolled back.     *)
(***************************************************************************)
InitEmit ==
    /\ Init
    /\ hookStates = EmptyMap
    /\ ownerDirOther = 0
    /\ balance = accountReserve(ownerCount)
    /\ emittedDir = {}
    /\ viewOpen = FALSE
    /\ callback = FALSE

\* a fee that passes rule 7 whether or not etxn_fee_base was called before
AmpleFee == SpecFee * drops_per_byte * TxLen

\* the emit calls: <<read_ptr, transaction>>
EmitCalls ==
    { <<InPtr, ChildTx(n, AmpleFee)>> : n \in 0..(MaxNonces - 1) }
    \cup { <<OobPtr, ChildTx(0, AmpleFee)>>, <<InPtr, ChildTx(0, SpecFee - 1)>>,
           <<InPtr, Deviate(ChildTx(0, AmpleFee), 1)>> }

NextEmit ==
    \/ \E count \in ReserveInputs : etxn_reserve(count)
    \/ \E wl \in {31, 32} : nonce(InPtr, wl)
    \/ \E c \in EmitCalls : emit(c[1], c[2])
    \/ GuestReturn
    \/ ApplyFinish
    \/ TransactorCommit(cclREMOVE)
    \/ \E tx \in {PlainOtxn, EmittedOtxn} : NewRun(FALSE, tx)

SpecEmit == InitEmit /\ [][NextEmit]_vars

(***************************************************************************)
(* The rules of emit: one run that reserves, draws nonces (directly or     *)
(* through etxn_details), may ask for the fee base, and offers well-formed *)
(* and ill-formed child transactions to emit.                              *)
(***************************************************************************)
NextEmitRules ==
    \/ \E count \in {1, MaxQueue} : etxn_reserve(count)
    \/ nonce(InPtr, 32)
    \/ \E wl \in {etxn_details_size - 1, etxn_details_size} : etxn_details(InPtr, wl)
    \/ etxn_fee_base(TxLen)
    \/ \E tx \in EmitCandidates : emit(InPtr, tx)
    \/ GuestReturn
    \/ ApplyFinish
    \/ TransactorCommit(cclREMOVE)

SpecEmitRules == InitEmit /\ [][NextEmitRules]_vars

(***************************************************************************)
(* The slot subsystem on its own.                                          *)
(***************************************************************************)
InitSlots ==
    /\ Init
    /\ otxn = PlainOtxn
    /\ viewOpen = FALSE
    /\ ~callback
    /\ hookStates = EmptyMap
    /\ ownerDirOther = 0
    /\ balance = accountReserve(ownerCount)
    /\ emittedDir = {}

\* the slot_set calls: <<read_ptr, read_len, slot_into, target>>
SlotSetCalls ==
    { <<InPtr, 34, 0, "found">>, <<InPtr, 34, 0, "missing">>, <<InPtr, 32, 0, "malformed">>,
      <<InPtr, 33, 0, "found">>, <<OobPtr, 34, 0, "found">>, <<InPtr, 34, -1, "found">>,
      <<InPtr, 34, max_slots + 1, "found">> }

\* the slot_subfield calls: <<parent_slot, field_id, new_slot>>
SubfieldCalls ==
    { <<1, f, new>> : f \in {sfAccount, sfMemos}, new \in {0, 1, max_slots + 1} }
    \cup { <<1, sfSigners, 0>>, <<1, sfUnknownCode, 0>>, <<max_slots, sfMemos, 0>> }

\* the slot_subarray calls: <<parent_slot, array_id, new_slot>>
SubarrayCalls == { <<1, 0, 0>>, <<1, 0, 1>>, <<1, MemoCount, 0>>, <<max_slots + 1, 0, 0>> }

NextSlots ==
    \/ \E into \in {0, 1, max_slots + 1} : otxn_slot(into)
    \/ \E c \in SlotSetCalls : slot_set(c[1], c[2], c[3], c[4])
    \/ \E c \in SubfieldCalls : slot_subfield(c[1], c[2], c[3])
    \/ \E c \in SubarrayCalls : slot_subarray(c[1], c[2], c[3])
    \/ \E n \in {1, max_slots + 1} : slot_clear(n)

SpecSlots == InitSlots /\ [][NextSlots]_vars

(***************************************************************************)
(* Slots loaded, descended and released: every slot can be released, and   *)
(* the loading calls are those that succeed.                               *)
(***************************************************************************)
\* <<parent_slot, field_id, new_slot>> and <<parent_slot, array_id, new_slot>>
TreeSubfieldCalls ==
    { <<1, sfMemos, 0>>, <<1, sfMemos, 1>>, <<1, sfAccount, 0>>, <<1, sfSigners, 0>>,
      <<1, sfUnknownCode, 0>>, <<2, sfMemos, 0>> }
TreeSubarrayCalls == { <<1, 0, 0>>, <<1, 0, 1>>, <<1, MemoCount, 0>>, <<2, 0, 0>> }

NextSlotTree ==
    \/ \E into \in {0, 1} : otxn_slot(into)
    \/ \E c \in {<<34, 0>>, <<34, 1>>, <<32, 1>>} : slot_set(InPtr, c[1], c[2], "found")
    \/ \E c \in TreeSubfieldCalls : slot_subfield(c[1], c[2], c[3])
    \/ \E c \in TreeSubarrayCalls : slot_subarray(c[1], c[2], c[3])
    \/ \E n \in 1..max_slots : slot_clear(n)

SpecSlotTree == InitSlots /\ [][NextSlotTree]_vars

(***************************************************************************)
(* The float calls on their own.  A call takes its float argument from the *)
(* guest's constants or from the value the previous call returned.         *)
(***************************************************************************)
\* mantissas the guest passes: 0, 1, 25, 10^15, 99 * 10^14, 10^16
GuestMantissas == {Man(0, 0), Man(1, 0), Man(25, 0), Man(1, 15), Man(99, 14), Man(1, 16)}
GuestExponents == {minExponent - 1, minExponent, -15, 0, maxExponent, maxExponent + 1}

\* int64 values the guest passes as floats: zero, one, a value with a short
\* mantissa, one with a long mantissa, one with the exponent field at 0, a
\* negative int64
GuestFloats ==
    { FloatZero, float_one_internal,
      [float_one_internal EXCEPT !.m = Man(1, 0)],
      [float_one_internal EXCEPT !.m = Man(1, 16)],
      [float_one_internal EXCEPT !.e = 0],
      [float_one_internal EXCEPT !.b63 = TRUE] }

\* the float a float-producing call returned last, if any
FloatProducers == {"float_set", "float_one", "float_negate", "float_sign_set",
                   "float_exponent_set", "float_mantissa_set", "float_sto_set"}
ReturnedFloat ==
    IF lastCall.fn \in FloatProducers /\ lastCall.ret = 0 /\ lastCall.key # <<"fault">>
    THEN {lastCall.out} ELSE {}

\* float arguments of a call
FloatArgs == GuestFloats \cup ReturnedFloat

\* amounts float_sto_set finds in memory
StoAmounts == { [neg |-> n, exp |-> e, m |-> m] :
                  n \in BOOLEAN, e \in {-ExponentBias, -15, maxExponent + 1},
                  m \in {Man(0, 0), Man(1, 0), Man(1, 15)} }

\* the float_sto_set calls: <<read_ptr, read_len, hdr>>
StoCalls == { <<InPtr, 7, 1>>, <<InPtr, 8, 1>>, <<InPtr, 9, 1>>, <<InPtr, 9, 2>>,
              <<InPtr, 10, 2>>, <<InPtr, 10, 3>>, <<InPtr, 11, 3>>,
              <<MemoryLength - 8, 9, 1>>, <<OobPtr, 9, 2>>, <<OobPtr, 8, 1>> }

InitFloat ==
    /\ Init
    /\ otxn = PlainOtxn
    /\ viewOpen = FALSE
    /\ ~callback
    /\ hookStates = EmptyMap
    /\ ownerDirOther = 0
    /\ balance = accountReserve(ownerCount)
    /\ emittedDir = {}

NextFloat ==
    \/ \E exp \in GuestExponents, neg \in BOOLEAN, m \in GuestMantissas : float_set(exp, neg, m)
    \/ float_one
    \/ \E f \in FloatArgs : float_negate(f)
    \/ \E f \in FloatArgs, negative \in {0, 1} : float_sign_set(f, negative)
    \/ \E f \in FloatArgs, exponent \in GuestExponents : float_exponent_set(f, exponent)
    \/ \E f \in FloatArgs, neg \in BOOLEAN, m \in GuestMantissas : float_mantissa_set(f, neg, m)
    \/ \E f1, f2 \in FloatArgs : float_divide(f1, f2)
    \/ \E f \in FloatArgs : float_invert(f)
    \/ \E c \in StoCalls, sto \in StoAmounts, wild \in WildReads :
          float_sto_set(c[1], c[2], c[3], sto, wild)

SpecFloat == InitFloat /\ [][NextFloat]_vars

(***************************************************************************)
(* float_sto and float_sto_set on the bytes it wrote.                      *)
(***************************************************************************)
\* valid floats: zero, one, minus one, 10^9 (exponent -6), the smallest and
\* the largest exponent, a mantissa of 99 * 10^14; and a negative int64
StoFloats ==
    { FloatZero, float_one_internal, invert_sign(float_one_internal),
      set_exponent(float_one_internal, -6).f,
      set_exponent(float_one_internal, minExponent).f,
      set_exponent(float_one_internal, maxExponent).f,
      [float_one_internal EXCEPT !.m = Man(99, 14)],
      [float_one_internal EXCEPT !.b63 = TRUE] }

\* field codes: XRP, the short form, and amounts whose type and field are
\* below 16 or not (STI_AMOUNT is type 6)
StoCodes == { XrpCode, ShortCode, [type |-> 6, field |-> 1], [type |-> 6, field |-> 16],
              [type |-> 16, field |-> 1], [type |-> 16, field |-> 16] }

\* the currency and issuer pairs: <<cread_ptr, cread_len, iread_ptr, iread_len>>
StoTails == { <<0, 0, 0, 0>>, <<InPtr, 20, InPtr, 20>>, <<InPtr, 20, InPtr, 19>>,
              <<OobPtr, 20, InPtr, 20>> }

NextSto ==
    \/ \E wp \in {InPtr, OobPtr}, wl \in {7, 8, 49, 51}, t \in StoTails,
          f \in StoFloats, code \in StoCodes :
          float_sto(wp, wl, t[1], t[2], t[3], t[4], f, code)
    \/ float_sto_set_back

SpecSto == InitFloat /\ [][NextSto]_vars

(***************************************************************************)
(* The parser and editor calls on objects in guest memory.                 *)
(***************************************************************************)
\* fully wrapped fields, in canonical order:
\*   12 00 01        TransactionType (UInt16, code 0x10002); 12 00 02 another value
\*   24 00 00 00 07  Sequence (UInt32, 0x20004)
\*   73 00           SigningPubKey, empty (Blob, 0x70003); 73 01 AA with one byte
\*   EA 7D 01 AA E1  Memo (Object, 0xE000A) holding MemoData
\*   01 10 09        CloseResolution (UInt8, 0x100001)
FType == <<18, 0, 1>>
FTypeOther == <<18, 0, 2>>
FSeq == <<36, 0, 0, 0, 7>>
FKeyEmpty == <<115, 0>>
FKey == <<115, 1, 170>>
FMemo == <<234, 125, 1, 170, 225>>
FUInt8 == <<1, 16, 9>>

\* the field code of a wrapped field
CodeOf(F) == StFieldCode(get_stobject_length(F \o <<0>>, 0, 0))

StoFields == {FTypeOther, FSeq, FKeyEmpty, FKey, FMemo, FUInt8}

\* canonically ordered objects of fewer fields than the loops take
ShortObjects == { << >>, FType, FSeq, FUInt8, FType \o FSeq, FType \o FKey, FSeq \o FUInt8,
                  FKey \o FMemo, FType \o FMemo }
\* a canonically ordered object of more fields than the loops take
LongObject == FType \o FSeq \o FKey \o FUInt8
\* objects that end in an empty blob, and bytes that are no object: a field
\* cut short, a reserved type, a lone header
OtherObjects == { FType \o FKeyEmpty, <<18, 0>>, FType \o <<36, 0>>, <<145, 0, 0>>, <<18>> }

StoObjects == ShortObjects \cup OtherObjects \cup {LongObject, FType \o FSeq \o FKey}

\* the bytes the last editor call wrote, when it read one of the objects above
WrittenObject ==
    IF lastCall.fn \in {"sto_emplace", "sto_erase"} /\ lastCall.ret >= 0
       /\ lastCall.a \in StoObjects
    THEN {lastCall.out} ELSE {}

\* the write buffers: <<write_ptr, write_len>>
StoBuffers == { <<InPtr, 64>>, <<InPtr, 4>>, <<OobPtr, 64>> }

\* the objects a call reads: one of the objects above as the first call, and
\* then what an editor call wrote
StoSources == IF lastCall.fn = "none" THEN StoObjects ELSE WrittenObject

NextStObject ==
    \/ \E w \in StoBuffers, src \in StoSources, F \in StoFields :
          sto_emplace(w[1], w[2], InPtr, src, InPtr, F, CodeOf(F))
    \/ \E w \in StoBuffers, src \in StoSources, F \in StoFields :
          sto_erase(w[1], w[2], InPtr, src, CodeOf(F))
    \/ \E rp \in {InPtr, OobPtr}, src \in StoSources : sto_validate(rp, src)

SpecStObject == InitFloat /\ [][NextStObject]_vars

(***************************************************************************)
(* Calls with (pointer, length) arguments, for the bounds test.            *)
(***************************************************************************)
\* <<pointer, length>> pairs: inside, ending at the end, past the end, far out
SomePairs == { <<InPtr, 32>>, <<MemoryLength - 32, 32>>, <<MemoryLength - 31, 32>>,
               <<OobPtr, 32>>, <<InPtr, 0>>, <<InPtr, 31>> }

\* state_set keys: <<kread_ptr, key>>
BoundsKeys == { <<InPtr, <<1>>>>, <<MemoryLength - 32, LongKey>>, <<MemoryLength - 33, LongKey>>,
                <<NearEndPtr, <<1>>>>, <<OobPtr, <<1>>>> }

NextBounds ==
    \/ \E w \in SomePairs, r \in SomePairs, wild \in WildReads :
          util_sha512h(w[1], w[2], r[1], r[2], wild)
    \/ \E c \in StoCalls, sto \in StoAmounts, wild \in WildReads :
          float_sto_set(c[1], c[2], c[3], sto, wild)
    \/ \E k \in BoundsKeys, rp \in {0, InPtr, OobPtr}, d \in {<< >>, <<1, 2>>} :
          state_set(rp, d, k[1], k[2])
    \/ \E wp \in {InPtr, OobPtr}, wl \in {31, 32} : nonce(wp, wl)

SpecBounds == InitFloat /\ [][NextBounds]_vars

(***************************************************************************)
(* Calls that write a host datum into a guest buffer: state and slot_id,   *)
(* with buffers shorter than, equal to and longer than the datum.          *)
(***************************************************************************)
InitWrites ==
    /\ Init
    /\ otxn = PlainOtxn
    /\ viewOpen = FALSE
    /\ ~callback
    /\ ownerDirOther = 0
    /\ balance = accountReserve(ownerCount)
    /\ emittedDir = {}

NextWrites ==
    \/ \E d \in {<< >>, <<1, 2>>} : state_set(InPtr, d, InPtr, <<1>>)
    \/ \E wp \in {0, InPtr}, wl \in {1, 2, 3} : state_foreign(wp, wl, InPtr, <<1>>, 0, 0)
    \/ otxn_slot(0)
    \/ slot_set(InPtr, 34, 0, "found")
    \/ \E wl \in {31, 32, 34}, n \in {1, 2} : slot_id(InPtr, wl, n)

SpecWrites == InitWrites /\ [][NextWrites]_vars

(***************************************************************************)
(* Reserve accounting: calls of setHookState on the account's view, as the *)
(* commit makes them one dirty entry after the other.  SpecReserve takes   *)
(* every call, SpecReserveOk only the calls that return tesSUCCESS.        *)
(***************************************************************************)
InitReserve ==
    /\ Init
    /\ otxn = PlainOtxn
    /\ viewOpen = FALSE
    /\ ~callback

ReserveKeys == {K1, K2, K3}
ReserveValues == { << >>, <<3>>, <<1, 2>>, TooLongValue }

NextReserve == \E key \in ReserveKeys, data \in ReserveValues : setHookStateCall(key, data)

SpecReserve == InitReserve /\ [][NextReserve]_vars

Succeeds(key, data) ==
    setHookState(Ledger(hookStates, hookStateCount, ownerCount, ownerDir), key, data).ter
        = "tesSUCCESS"

NextReserveOk ==
    \E key \in ReserveKeys, data \in ReserveValues :
        Succeeds(key, data) /\ setHookStateCall(key, data)

SpecReserveOk == InitReserve /\ [][NextReserveOk]_vars

(***************************************************************************)
(* Exit and guard metering: accept, rollback, _g, the entry point's return *)
(* and the engine's errors, for both entry points.                         *)
(***************************************************************************)
InitExit ==
    /\ Init
    /\ hookStates = EmptyMap
    /\ ownerDirOther = 0
    /\ balance = accountReserve(ownerCount)
    /\ otxn = EmittedOtxn
    /\ viewOpen = FALSE

NextExit ==
    \/ \E id \in GuardIds, maxitr \in 0..MaxGuardIter : _g(id, maxitr)
    \/ \E rp \in {0, InPtr, OobPtr}, b \in ReasonInputs : accept(rp, b, 0)
    \/ \E rp \in {0, OobPtr} : rollback(rp, <<65>>, 20)
    \/ GuestReturn
    \/ EngineError
    \/ ApplyFinish
    \/ TransactorCommit(cclAPPLY + cclREMOVE)
    \/ \E cb \in BOOLEAN : NewRun(cb, EmittedOtxn)

SpecExit == InitExit /\ [][NextExit]_vars

(***************************************************************************)
(* The commit: a run of either entry point that stages state and queues    *)
(* emissions, on an open or a closed view, committed by apply (callback)   *)
(* or by the transactor with each mode.                                    *)
(***************************************************************************)
InitCommit ==
    /\ Init
    /\ ownerDirOther = 0
    /\ balance = accountReserve(ownerCount + 1)

NextCommit ==
    \/ \E d \in {<< >>, <<1, 2>>} : state_set(InPtr, d, InPtr, <<1>>)
    \/ etxn_reserve(MaxQueue)
    \/ nonce(InPtr, 32)
    \/ \E n \in 0..(MaxNonces - 1) : emit(InPtr, ChildTx(n, AmpleFee))
    \/ accept(0, << >>, 0)
    \/ rollback(0, << >>, 20)
    \/ GuestReturn
    \/ EngineError
    \/ ApplyFinish
    \/ \E m \in 0..3 : TransactorCommit(m)

SpecCommit == InitCommit /\ [][NextCommit]_vars

(***************************************************************************)
(* Every operation together.                                               *)
(***************************************************************************)
Next ==
    \/ \E rp \in {0, InPtr, OobPtr}, d \in ValueInputs, kp \in {InPtr, NearEndPtr}, k \in KeyInputs :
          state_set(rp, d, kp, k)
    \/ \E wp \in {0, InPtr, OobPtr}, wl \in {0, 1, 2}, kp \in {InPtr, NearEndPtr}, k \in KeyInputs,
          a \in {<<0, 0>>, <<0, 20>>, <<InPtr, 20>>, <<InPtr, 19>>} :
          state_foreign(wp, wl, kp, k, a[1], a[2])
    \/ \E rp \in {0, InPtr, OobPtr}, b \in ReasonInputs, c \in {0, 20} : accept(rp, b, c)
    \/ \E rp \in {0, InPtr, OobPtr}, b \in ReasonInputs, c \in {0, 20} : rollback(rp, b, c)
    \/ \E id \in GuardIds, maxitr \in 0..MaxGuardIter : _g(id, maxitr)
    \/ \E count \in ReserveInputs : etxn_reserve(count)
    \/ \E wp \in {InPtr, OobPtr}, wl \in {31, 32} : nonce(wp, wl)
    \/ etxn_fee_base(TxLen)
    \/ \E wl \in {etxn_details_size - 1, etxn_details_size} : etxn_details(InPtr, wl)
    \/ \E rp \in {InPtr, OobPtr}, tx \in EmitCandidates : emit(rp, tx)
    \/ \E into \in {0, 1, max_slots + 1} : otxn_slot(into)
    \/ \E rl \in {32, 33, 34}, t \in SlotTargets, into \in {-1, 0, 1} : slot_set(InPtr, rl, into, t)
    \/ \E parent \in {1, 2}, f \in FieldIds, new \in {0, 1, 2, max_slots + 1} :
          slot_subfield(parent, f, new)
    \/ \E parent \in {1, 2}, i \in {0, MemoCount}, new \in {0, 1, 2, max_slots + 1} :
          slot_subarray(parent, i, new)
    \/ \E n \in {1, 2} : slot_clear(n)
    \/ \E wl \in {31, 32, 34}, n \in {1, 2} : slot_id(InPtr, wl, n)
    \/ \E w \in SomePairs, r \in SomePairs, wild \in WildReads :
          util_sha512h(w[1], w[2], r[1], r[2], wild)
    \/ \E exp \in GuestExponents, neg \in BOOLEAN, m \in GuestMantissas : float_set(exp, neg, m)
    \/ float_one
    \/ \E f \in FloatArgs : float_negate(f)
    \/ \E f \in FloatArgs, negative \in {0, 1} : float_sign_set(f, negative)
    \/ \E f \in FloatArgs, exponent \in GuestExponents : float_exponent_set(f, exponent)
    \/ \E f \in FloatArgs, neg \in BOOLEAN, m \in GuestMantissas : float_mantissa_set(f, neg, m)
    \/ \E f1, f2 \in FloatArgs : float_divide(f1, f2)
    \/ \E f \in FloatArgs : float_invert(f)
    \/ \E c \in StoCalls, sto \in StoAmounts, wild \in WildReads :
          float_sto_set(c[1], c[2], c[3], sto, wild)
    \/ \E wl \in {8, 51}, t \in StoTails, f \in StoFloats, code \in StoCodes :
          float_sto(InPtr, wl, t[1], t[2], t[3], t[4], f, code)
    \/ float_sto_set_back
    \/ \E src \in StoObjects, F \in StoFields :
          sto_emplace(InPtr, 64, InPtr, src, InPtr, F, CodeOf(F))
    \/ \E src \in StoObjects, F \in StoFields : sto_erase(InPtr, 64, InPtr, src, CodeOf(F))
    \/ \E src \in StoObjects : sto_validate(InPtr, src)
    \/ GuestReturn
    \/ EngineError
    \/ ApplyFinish
    \/ \E m \in 0..3 : TransactorCommit(m)
    \/ \E cb \in BOOLEAN, tx \in {PlainOtxn, EmittedOtxn} : NewRun(cb, tx)

Spec == Init /\ [][Next]_vars

(***************************************************************************)
(* Properties of the state subsystem, checked under SpecState.             *)
(***************************************************************************)
\* the last call is a local read of key k into a guest buffer (a non-null
\* pointer, inside the memory) of at least n bytes
ReadIntoBuffer(k, n) ==
    /\ lastCall.fn = "state"
    /\ lastCall.key = k
    /\ lastCall.a # 0
    /\ ~NOT_IN_BOUNDS(lastCall.a, lastCall.b, MemoryLength)
    /\ lastCall.b >= n

\* C1: read-your-writes.  A state(buf, k) call made after an accepted
\* state_set(v, k) of the same run, with no later state_set on k and a buffer
\* of at least |v| bytes, returns |v| and delivers exactly v, whatever calls
\* came between and whether or not k was cached clean before the write.
C1_ReadYourWrites ==
    \A k \in DOMAIN staged :
        ReadIntoBuffer(k, Len(staged[k])) =>
            /\ lastCall.ret = Len(staged[k])
            /\ lastCall.out = staged[k]

\* a non-empty value was staged over a ledger entry and read back
C1_Witness ==
    /\ K1 \in DOMAIN staged
    /\ K1 \in DOMAIN hookStates
    /\ staged[K1] = <<1, 2>>
    /\ hookStates[K1] # staged[K1]
    /\ ReadIntoBuffer(K1, 2)
    /\ lastCall.out = <<1, 2>>

\* C2: after state_set with a zero-length value on key k, a state(..., k) of
\* the same run returns DOESNT_EXIST, whether or not the ledger holds k.
C2_DeletedReadsDoesntExist ==
    \A k \in DOMAIN staged :
        (staged[k] = << >> /\ ReadIntoBuffer(k, 0)) => lastCall.ret = DOESNT_EXIST

\* C3: a value staged by state_set (non-empty) in a run that ended with
\* ACCEPT and was committed with a mode containing APPLY is what a state read
\* of a fresh run on the same account returns.
C3_PersistedOnAccept ==
    \A k \in DOMAIN persisted :
        (k \notin DOMAIN staged /\ ReadIntoBuffer(k, Len(persisted[k]))) =>
            /\ lastCall.ret = Len(persisted[k])
            /\ lastCall.out = persisted[k]

(***************************************************************************)
(* Properties of the emission subsystem, checked under SpecEmit.           *)
(***************************************************************************)
\* the step is an emit call whose (pointer, length) pair is inside the memory
EmitStep ==
    /\ lastCall'.fn = "emit"
    /\ ~NOT_IN_BOUNDS(lastCall'.b, TxLen, MemoryLength)

\* C4: emission bound.  Every successful emit lengthens the emitted queue by
\* exactly one; a run never holds more than expected_etxn_count queued
\* transactions, so no more than that many emits succeed; and once that many
\* are queued every further emit returns TOO_MANY_EMITTED_TXN and leaves the
\* queue as it was.
C4_EmissionBound ==
    /\ [](pc = "running" =>
            Len(emittedTxn) <= (IF expected_etxn_count < 0 THEN 0 ELSE expected_etxn_count))
    /\ [][EmitStep =>
            /\ lastCall'.ret >= 0 => emittedTxn' = Append(emittedTxn, emittedTxn'[Len(emittedTxn')])
            /\ lastCall'.ret >= 0 => Len(emittedTxn') = Len(emittedTxn) + 1
            /\ (expected_etxn_count >= 0 /\ Len(emittedTxn) >= expected_etxn_count) =>
                   /\ lastCall'.ret = TOO_MANY_EMITTED_TXN
                   /\ emittedTxn' = emittedTxn]_vars

\* an emit was refused on a queue that holds the one reserved transaction
C4_Witness ==
    /\ lastCall.fn = "emit"
    /\ lastCall.ret = TOO_MANY_EMITTED_TXN
    /\ expected_etxn_count = 1
    /\ Len(emittedTxn) = 1
    /\ lastCall.a = 1

\* C5: reservation lifecycle.  A run starts with the expected-emission count
\* unset (-1); while it is unset emit returns PREREQUISITE_NOT_MET; the first
\* etxn_reserve(count) with count <= max_emit sets it to count and returns
\* count; every later etxn_reserve returns ALREADY_SET and changes nothing;
\* etxn_reserve(count) with count > max_emit on an unset count returns
\* TOO_BIG and leaves it unset.
C5_ReservationLifecycle ==
    /\ expected_etxn_count = UnsetEtxnCount
    /\ [][runs' # runs => expected_etxn_count' = UnsetEtxnCount]_vars
    /\ [][(EmitStep /\ expected_etxn_count = UnsetEtxnCount) =>
              /\ lastCall'.ret = PREREQUISITE_NOT_MET
              /\ expected_etxn_count' = UnsetEtxnCount]_vars
    /\ [][lastCall'.fn = "etxn_reserve" =>
              LET count == lastCall'.a
              IN  IF expected_etxn_count # UnsetEtxnCount
                  THEN /\ lastCall'.ret = ALREADY_SET
                       /\ expected_etxn_count' = expected_etxn_count
                  ELSE IF count <= max_emit
                  THEN /\ lastCall'.ret = count
                       /\ expected_etxn_count' = count
                  ELSE /\ lastCall'.ret = TOO_BIG
                       /\ expected_etxn_count' = UnsetEtxnCount]_vars

\* a second etxn_reserve, with another count, was refused
C5_Witness ==
    /\ lastCall.fn = "etxn_reserve"
    /\ lastCall.ret = ALREADY_SET
    /\ lastCall.b = 1
    /\ lastCall.a = MaxQueue
    /\ expected_etxn_count = 1

(***************************************************************************)
(* Properties of exit and guard metering, checked under SpecExit.          *)
(***************************************************************************)
\* C6: guard metering.  The k-th call of a run with guard id `id`, made with
\* limit n, returns 1 and leaves exit type and exit code alone when k <= n;
\* when k = n + 1 it sets exit type ROLLBACK and exit code GUARD_VIOLATION and
\* returns RC_ROLLBACK.  k counts the calls with that id only, so calls with
\* other ids in between do not matter.
C6_GuardMetering ==
    [][lastCall'.fn = "_g" =>
          LET id == lastCall'.a
              n == lastCall'.b
              k == gcalls'[id]
          IN  /\ k <= n => /\ lastCall'.ret = 1
                           /\ exitType' = exitType
                           /\ exitCode' = exitCode
                           /\ pc' = "running"
              /\ k = n + 1 => /\ lastCall'.ret = RC_ROLLBACK
                              /\ exitType' = ROLLBACK
                              /\ exitCode' = GUARD_VIOLATION]_vars

\* the third call _g(1, 2) tripped, with calls of guard 2 made in the run
C6_Witness ==
    /\ lastCall.fn = "_g"
    /\ lastCall.a = 1
    /\ lastCall.b = MaxGuardIter
    /\ gcalls[1] = MaxGuardIter + 1
    /\ 2 \in DOMAIN gcalls
    /\ lastCall.ret = RC_ROLLBACK
    /\ exitCode = GUARD_VIOLATION

\* apply has returned the result of the run
RunEnded == pc = "finished"

\* the run ended on an engine error (ssvm_error > 1)
EndedOnEngineError == RunEnded /\ lastCall.fn = "engine_error"

\* C7 as stated: at the end of a run the exit type is ACCEPT only if an accept
\* call completed in that run, and every run that ends without a completed
\* accept ends with exit type ROLLBACK.
C7_ExitDefault_AsStated ==
    RunEnded => /\ exitType = ACCEPT => acceptDone
                /\ ~acceptDone => exitType = ROLLBACK

\* C7: at the end of a run the exit type is ACCEPT only if an accept call
\* completed in that run; a run that ends without a completed accept ends with
\* exit type ROLLBACK, unless the engine reported an error, and then it ends
\* with exit type WASM_ERROR.
C7_ExitDefault ==
    RunEnded => /\ exitType = ACCEPT => acceptDone
                /\ (~acceptDone /\ ~EndedOnEngineError) => exitType = ROLLBACK
                /\ EndedOnEngineError => exitType = WASM_ERROR

\* `hook` simply returned without a verdict
C7_Witness ==
    /\ RunEnded
    /\ ~callback
    /\ ~acceptDone
    /\ instructionCount = InstrCount
    /\ exitType = ROLLBACK
    /\ exitCode = -1

\* the entry point returned: runWasmFile succeeded and the instruction count
\* was taken
ReturnedNormally == pc \in {"returned", "finished"} /\ instructionCount = InstrCount

\* C8 as stated: a run of cbak that returns normally ends with exit type
\* ACCEPT.
C8_CallbackDefault_AsStated == (callback /\ ReturnedNormally) => exitType = ACCEPT

\* C8: a run of cbak that returns normally, without a completed accept or
\* rollback, guard violation or engine error, ends with exit type ROLLBACK,
\* the same default as `hook`.
C8_CallbackDefault == (callback /\ ReturnedNormally) => exitType = ROLLBACK /\ exitCode = -1

\* cbak returned and apply committed the run as a rollback
C8_Witness ==
    /\ callback
    /\ ReturnedNormally
    /\ pc = "finished"
    /\ lastCommit.done
    /\ lastCommit.mode = cclREMOVE
    /\ exitType = ROLLBACK

(***************************************************************************)
(* Properties of the commit, checked under SpecCommit.                     *)
(***************************************************************************)
\* C9: the commit of a callback execution runs with APPLY|REMOVE when the exit
\* type is ACCEPT and with REMOVE only otherwise; with REMOVE only no state
\* entry is written, nothing enters the emitted directory and the queue is
\* left as it was.
C9_CallbackCommitMode ==
    (callback /\ lastCommit.done) =>
        /\ lastCommit.mode = IF exitType = ACCEPT THEN cclAPPLY + cclREMOVE ELSE cclREMOVE
        /\ exitType # ACCEPT =>
               /\ hookStates = lastCommit.statesBefore
               /\ emittedDir \subseteq lastCommit.emittedBefore
               /\ emittedTxn = lastCommit.queueBefore

\* a callback rolled back with a dirty entry staged and a transaction queued
C9_Witness ==
    /\ callback
    /\ lastCommit.done
    /\ exitType = ROLLBACK
    /\ lastCommit.mode = cclREMOVE
    /\ lastCommit.queueBefore # << >>
    /\ K1 \in DOMAIN lastCommit.cacheBefore
    /\ lastCommit.cacheBefore[K1] = [dirty |-> TRUE, data |-> <<1, 2>>]
    /\ K1 \notin DOMAIN hookStates

DetailsValid(tx) ==
    /\ tx.has_ed
    /\ tx.ed_complete
    /\ tx.gen = etxn_generation(otxn)
    /\ tx.bur = etxn_burden(expected_etxn_count, otxn)
    /\ tx.ptxn = otxn.id
    /\ tx.cb = HookAccount
    /\ tx.nonce \in nonce_used

\* C11: EmitDetails validation.  emit enqueues a transaction only if its
\* EmitDetails carry all five sub-fields, with the generation etxn_generation
\* returns, the burden etxn_burden returns, the originating transaction's id,
\* the hook account as callback and a nonce issued earlier in the run (by
\* nonce or by etxn_details); an emit call that passes the bounds, reservation
\* and queue tests with EmitDetails that fall short returns EMISSION_FAILURE.
C11_EmitDetailsValidation ==
    [][EmitStep =>
          /\ emittedTxn' # emittedTxn =>
                 /\ DetailsValid(lastCall'.out)
                 /\ emittedTxn' = Append(emittedTxn, lastCall'.out)
          /\ (/\ expected_etxn_count >= 0
              /\ Len(emittedTxn) < expected_etxn_count
              /\ ~DetailsValid(lastCall'.out)) => lastCall'.ret = EMISSION_FAILURE]_vars

\* an otherwise valid child whose nonce was never issued was refused in a run
\* that had issued another nonce
C11_Witness ==
    /\ lastCall.fn = "emit"
    /\ lastCall.ret = EMISSION_FAILURE
    /\ lastCall.out = ChildTx(1, AmpleFee)
    /\ nonce_used = {0}
    /\ expected_etxn_count = 1
    /\ emittedTxn = << >>

\* C12: after etxn_reserve(1), emit of an otherwise valid child transaction
\* with EmitDetails as etxn_details writes them and
\* Fee = base_fee * burden * drops_per_byte * byte_count succeeds and returns
\* byte_count, and the same child with the fee one drop lower returns
\* EMISSION_FAILURE.
C12_FeeThreshold ==
    (/\ lastCall.fn = "emit"
     /\ ~NOT_IN_BOUNDS(lastCall.b, TxLen, MemoryLength)
     /\ expected_etxn_count = 1
     /\ lastCall.a = 0) =>
        \A n \in nonce_used :
            /\ lastCall.out = ChildTx(n, SpecFee) => lastCall.ret = TxLen
            /\ lastCall.out = ChildTx(n, SpecFee - 1) => lastCall.ret = EMISSION_FAILURE

(***************************************************************************)
(* Properties of reserve accounting.                                       *)
(***************************************************************************)
\* the owner-count units the account carries for its hook state
HookStateUnits == ownerCount - ownerDirOther

\* C13: after any sequence of state creations, updates and deletions that
\* each returned success (SpecReserveOk), the units the account carries for
\* hook state are ceil(n / 5), n the number of state entries that exist.
C13_OwnerReserveInvariant ==
    HookStateUnits = COMPUTE_HOOK_DATA_OWNER_COUNT(Cardinality(DOMAIN hookStates))

\* the step is a setHookState call that creates an entry, needs a further
\* unit by the hook's state count, on a balance below the reserve for it
CreateOnShortReserve ==
    /\ lastCall'.fn = "setHookState"
    /\ lastCall'.key \notin DOMAIN hookStates
    /\ lastCall'.out # << >>
    /\ Len(lastCall'.out) <= maxHookStateDataSize
    /\ COMPUTE_HOOK_DATA_OWNER_COUNT(hookStateCount + 1)
           > COMPUTE_HOOK_DATA_OWNER_COUNT(hookStateCount)
    /\ balance < accountReserve(ownerCount + 1)

HostCallStep == pc = "running" /\ lastCall'.fn \notin {"none", "engine_error"}

\* C15: no host function call changes the ledger view: the state entries,
\* the state count, the owner count and directory, the balance, the emitted
\* directory and the metadata stay as they are over every host call;
\* state_set changes only the state cache and emit only appends to the
\* emitted queue (and caches the fee base).
C15_Staging ==
    [][HostCallStep =>
          /\ UNCHANGED ledgerVars
          /\ lastCall'.fn = "state_set" =>
                 /\ UNCHANGED <<emitVars, guardVars, exitVars, runVars>>
                 /\ \A k \in DOMAIN changedState' :
                        \/ k \in DOMAIN changedState /\ changedState'[k] = changedState[k]
                        \/ changedState'[k].dirty
          /\ lastCall'.fn = "emit" =>
                 /\ UNCHANGED <<stateVars, guardVars, exitVars, runVars>>
                 /\ \/ emittedTxn' = emittedTxn
                    \/ emittedTxn' = Append(emittedTxn, lastCall'.out)]_vars

\* the guest has staged a write and queued a transaction the ledger does not
\* hold yet
C15_Witness ==
    /\ pc = "running"
    /\ lastCall.fn = "emit"
    /\ lastCall.ret > 0
    /\ Len(emittedTxn) = 1
    /\ emittedDir = {}
    /\ K1 \in DOMAIN changedState
    /\ changedState[K1].dirty
    /\ changedState[K1].data = <<1, 2>>
    /\ K1 \notin DOMAIN hookStates

(***************************************************************************)
(* Properties of the slot table, checked under SpecSlots.                  *)
(***************************************************************************)
\* C16: after any sequence of slot_set, otxn_slot, slot_subfield,
\* slot_subarray and slot_clear calls, every slot id present in the slot
\* table lies in [1, max_slots].
C16_SlotIdRange == \A n \in DOMAIN slot : 1 <= n /\ n <= max_slots

\* the step is a slot_set or otxn_slot call with into = 0 whose other
\* arguments pass the call's own checks
AllocStep ==
    /\ lastCall'.fn \in {"slot_set", "otxn_slot"}
    /\ lastCall'.a = 0
    /\ lastCall'.ret \notin {OUT_OF_BOUNDS, INVALID_ARGUMENT, DOESNT_EXIST}

\* C17: slot_set and otxn_slot with into = 0 return NO_FREE_SLOTS, changing
\* nothing, exactly when the free queue is empty and the counter has passed
\* max_slots; otherwise they return a slot id that was not occupied at the
\* time of the call, the head of the free queue if it is non-empty and the
\* counter's value otherwise.
C17_SlotAllocation ==
    [][AllocStep =>
          IF no_free_slots(slot_counter, slot_free)
          THEN lastCall'.ret = NO_FREE_SLOTS /\ UNCHANGED slotVars
          ELSE /\ lastCall'.ret \notin DOMAIN slot
               /\ lastCall'.ret \in DOMAIN slot'
               /\ lastCall'.ret = IF Len(slot_free) > 0 THEN Head(slot_free)
                                  ELSE slot_counter]_vars

(***************************************************************************)
(* The bounds test, checked under SpecBounds.                              *)
(***************************************************************************)
\* the (pointer, length) argument pairs of a recorded call
CallPairs(c) ==
    IF c.fn = "util_sha512h" THEN {c.out, <<c.a, c.b>>}
    ELSE IF c.fn = "float_sto_set" THEN {<<c.a, c.b>>}
    ELSE IF c.fn = "state_set" THEN {c.key, <<c.a, c.b>>}
    ELSE {}

\* the recorded call read or wrote memory (or faulted doing so)
TouchedMemory(c) == c.fn \in {"util_sha512h", "float_sto_set"} /\ c.key # << >>

\* codes that refuse a call for a length argument alone
LengthRefusals == {TOO_SMALL, TOO_BIG, NOT_AN_OBJECT}

\* C18: a host call with a (pointer, length) argument pair whose sum exceeds
\* the guest memory size returns OUT_OF_BOUNDS and neither reads nor writes
\* memory; stated for the write and read pairs of util_sha512h, the read
\* pair of float_sto_set and the key and data pairs of state_set.  A call
\* refused for a length alone, before the bounds test, is let through with
\* that code as long as it touched no memory.
C18_BoundsCheck ==
    [][\A pr \in CallPairs(lastCall') :
          pr[1] + pr[2] > MemoryLength =>
              /\ lastCall'.ret \in {OUT_OF_BOUNDS} \cup LengthRefusals
              /\ ~TouchedMemory(lastCall')]_vars

(***************************************************************************)
(* Writes into guest buffers, checked under SpecWrites.                    *)
(***************************************************************************)
\* the last call was a state or slot_id call that passed its argument tests
\* and found its datum, with a buffer inside the guest memory
WroteDatum ==
    /\ lastCall.fn \in {"state", "slot_id"}
    /\ lastCall.a # 0
    /\ ~NOT_IN_BOUNDS(lastCall.a, lastCall.b, MemoryLength)
    /\ lastCall.fn = "state" => lastCall.key \in DOMAIN changedState
    /\ lastCall.fn = "slot_id" => lastCall.key[1] \in DOMAIN slot

\* the host datum of that call
HostDatum ==
    IF lastCall.fn = "state" THEN changedState[lastCall.key].data
    ELSE slot[lastCall.key[1]].id

\* C19 as stated: when the host datum is longer than the guest buffer, the
\* call writes min(host_len, guest_len) bytes and returns that number.
C19_SaturatedWrites_AsStated ==
    (WroteDatum /\ Len(HostDatum) > lastCall.b) =>
        /\ lastCall.ret = Min(Len(HostDatum), lastCall.b)
        /\ lastCall.out = SubSeq(HostDatum, 1, lastCall.b)

\* C19: a datum longer than the guest buffer is refused with TOO_SMALL and
\* nothing is written; a datum that fits is written whole and its length is
\* returned.  Either way the call writes no more than min(host_len,
\* guest_len) bytes.
C19_WritesFitOrRefuse ==
    WroteDatum =>
        /\ Len(HostDatum) > lastCall.b => lastCall.ret = TOO_SMALL /\ lastCall.out = << >>
        /\ Len(HostDatum) <= lastCall.b =>
               lastCall.ret = Len(HostDatum) /\ lastCall.out = HostDatum
        /\ Len(lastCall.out) <= Min(Len(HostDatum), lastCall.b)

\* a two-byte state value was read into a one-byte buffer
C19_Witness ==
    /\ WroteDatum
    /\ lastCall.fn = "state"
    /\ lastCall.b = 1
    /\ HostDatum = <<1, 2>>
    /\ lastCall.ret = TOO_SMALL

(***************************************************************************)
(* Floats, checked under SpecFloat.                                        *)
(***************************************************************************)
\* mantissa in [10^15, 10^16 - 1] and exponent in [-96, 80]
IsCanonical(f) ==
    /\ ~BelowMinMantissa(get_mantissa(f))
    /\ ~AboveMaxMantissa(get_mantissa(f))
    /\ get_exponent(f) >= minExponent
    /\ get_exponent(f) <= maxExponent

\* C20: every non-zero, non-negative value a float-producing host function
\* returns (float_set, float_one, float_negate, float_sign_set,
\* float_exponent_set, float_mantissa_set, float_sto_set of the claim's
\* list) has a mantissa in [10^15, 10^16 - 1] and an exponent in [-96, 80].
C20_CanonicalFloats ==
    (/\ lastCall.fn \in FloatProducers
     /\ lastCall.key # <<"fault">>
     /\ lastCall.ret = 0
     /\ lastCall.out # FloatZero
     /\ ~lastCall.out.b63) => IsCanonical(lastCall.out)

(***************************************************************************)
(* Serialised amounts, checked under SpecSto.                              *)
(***************************************************************************)
\* float_sto wrote the float lastCall.out.f and float_sto_set reads it back
StoReadBack ==
    /\ lastCall.fn = "float_sto"
    /\ lastCall.ret > 0
    /\ lastCall'.fn = "float_sto_set"

\* C21: for every valid float f, float_sto_set on the bytes float_sto wrote
\* for f returns f, in the XRP form (field_code 0), in the IOU form with
\* field header, currency and issuer, and in the short 8-byte form.
C21_StoRoundTrip ==
    [][StoReadBack => (lastCall'.ret = 0 /\ lastCall'.out = lastCall.out.f)]_vars

\* the same for the IOU forms only
C21_IouRoundTrip ==
    [][(StoReadBack /\ lastCall.key # <<XrpCode.type, XrpCode.field>>)
          => (lastCall'.ret = 0 /\ lastCall'.out = lastCall.out.f)]_vars

(***************************************************************************)
(* The parser and editor, checked under SpecStObject.                      *)
(***************************************************************************)
\* the field codes of the fields of b from upto on
RECURSIVE FieldCodesFrom(_, _)
FieldCodesFrom(b, upto) ==
    IF upto >= Len(b) THEN {}
    ELSE LET r == get_stobject_length(b, upto, 0)
         IN  IF r.len < 0 THEN {} ELSE {StFieldCode(r)} \cup FieldCodesFrom(b, upto + r.len)

\* lastCall is an sto_emplace of a wrapped field into a well-formed object
\* that succeeded, and the next call edits what it wrote, for the same field
\* code, into a buffer that holds the result
EditsEmplaced(fn) ==
    /\ lastCall.fn = "sto_emplace"
    /\ lastCall.ret >= 0
    /\ lastCall.a \in ShortObjects
    /\ lastCall.b \in StoFields
    /\ lastCall'.fn = fn
    /\ lastCall'.a = lastCall.out
    /\ lastCall'.key = <<lastCall.key[1], InPtr, 64>>

\* C22: for a well-formed object src and a fully wrapped field F,
\* sto_emplace(sto_emplace(src, F), F) yields the same bytes as
\* sto_emplace(src, F), whether or not src held a field of F's code.
C22_EmplaceIdempotent ==
    [][(EditsEmplaced("sto_emplace") /\ lastCall'.b = lastCall.b)
          => (lastCall'.ret = lastCall.ret /\ lastCall'.out = lastCall.out)]_vars

\* the same for the fields that do not end in an empty blob
C22_EmplaceIdempotent_NonEmptyTail ==
    [][(EditsEmplaced("sto_emplace") /\ lastCall'.b = lastCall.b /\ lastCall.b # FKeyEmpty)
          => (lastCall'.ret = lastCall.ret /\ lastCall'.out = lastCall.out)]_vars

\* C23: for a well-formed, canonically ordered object src and a fully
\* wrapped field F whose code is not in src, sto_erase(sto_emplace(src, F),
\* code of F) returns the bytes of src, wherever F's place is: before the
\* first field, between fields, after the last.
C23_EmplaceEraseRoundTrip ==
    [][(EditsEmplaced("sto_erase") /\ lastCall.key[1] \notin FieldCodesFrom(lastCall.a, 0))
          => (lastCall'.ret = Len(lastCall.a) /\ lastCall'.out = lastCall.a)]_vars

\* the same for the fields that do not end in an empty blob
C23_EmplaceEraseRoundTrip_NonEmptyTail ==
    [][(/\ EditsEmplaced("sto_erase")
        /\ lastCall.key[1] \notin FieldCodesFrom(lastCall.a, 0)
        /\ lastCall.b # FKeyEmpty)
          => (lastCall'.ret = Len(lastCall.a) /\ lastCall'.out = lastCall.a)]_vars

\* the parser walks b from upto, field by field and within the loop's
\* iterations, to exactly its end
RECURSIVE WalksToEnd(_, _, _)
WalksToEnd(b, upto, i) ==
    IF upto = Len(b) THEN TRUE
    ELSE IF upto > Len(b) \/ i >= StoIterations THEN FALSE
    ELSE LET r == get_stobject_length(b, upto, 0)
         IN  r.len >= 0 /\ WalksToEnd(b, upto + r.len, i + 1)

\* C24: sto_validate(src) returns 1 if and only if the parser walks src field
\* by field to exactly its end without error; it returns 0 when the last
\* field's declared length runs past the end of src and when src holds more
\* top-level fields than the iteration bound.
C24_ValidateWalksToEnd ==
    (lastCall.fn = "sto_validate" /\ lastCall.ret \in {0, 1})
        => (lastCall.ret = 1 <=> WalksToEnd(lastCall.a, 0, 0))

(***************************************************************************)
(* The commit of a callback and of a run, checked under SpecCommit.        *)
(***************************************************************************)
\* a callback execution on an emitted transaction has ended, on a closed view
CallbackEnded ==
    /\ callback
    /\ pc = "finished"
    /\ otxn.has_ed
    /\ ~viewOpen

\* C25: every callback execution (apply with callback = true) whose
\* originating transaction is an emitted transaction has removed that
\* transaction's entry from the emitted directory when it ends, whatever its
\* exit type: ACCEPT, ROLLBACK or WASM_ERROR.
C25_CallbackAlwaysRemoves ==
    CallbackEnded => otxn.id \notin emittedDir

\* the same for the executions that end with ACCEPT or ROLLBACK
C25_CallbackRemovesUnlessEngineError ==
    (CallbackEnded /\ exitType # WASM_ERROR) => otxn.id \notin emittedDir

(***************************************************************************)
(* The state writes of a commit, checked under SpecState.                  *)
(***************************************************************************)
\* the keys of the cache entries a commit found dirty, and found clean
DirtyBefore == {k \in DOMAIN lastCommit.cacheBefore : lastCommit.cacheBefore[k].dirty}
CleanBefore == DOMAIN lastCommit.cacheBefore \ DirtyBefore

\* C26: a commit whose mode contains APPLY calls setHookState exactly once
\* for each cache entry whose dirty flag is set and never for an entry that
\* was only read, and the HookStateChangeCount it records is the number of
\* dirty entries; a commit with REMOVE only calls setHookState for no entry.
C26_OnlyDirtyCommitted ==
    lastCommit.done =>
        IF HasApply(lastCommit.mode)
        THEN /\ Len(lastCommit.setCalls) = Cardinality(DirtyBefore)
             /\ {lastCommit.setCalls[i] : i \in 1..Len(lastCommit.setCalls)} = DirtyBefore
             /\ Len(hookMeta) > lastCommit.metaBefore =>
                    hookMeta[Len(hookMeta)].HookStateChangeCount = Cardinality(DirtyBefore)
        ELSE lastCommit.setCalls = << >>

\* a commit with APPLY found one entry written and another only read
C26_Witness ==
    /\ lastCommit.done
    /\ HasApply(lastCommit.mode)
    /\ DirtyBefore # {}
    /\ CleanBefore # {}
    /\ Len(lastCommit.setCalls) = 1
    /\ Len(hookMeta) > lastCommit.metaBefore

\* a callback that rolled back committed with REMOVE only, a dirty entry staged
C26_WitnessRemoveOnly ==
    /\ lastCommit.done
    /\ lastCommit.mode = cclREMOVE
    /\ DirtyBefore # {}

(***************************************************************************)
(* The emitted directory after a commit, checked under SpecCommit.         *)
(***************************************************************************)
\* the ids of the first n transactions of the queue a commit found
QueuedIds(n) == {lastCommit.queueBefore[i].id : i \in 1..n}

\* C27: a commit with APPLY inserts the queued transactions into the emitted
\* directory in queue order; when the append fails for one of them, those
\* inserted before it stay in the ledger, the failing one has no entry, none
\* behind it is inserted, and the insertion stops for no other reason than a
\* full directory.
C27_DirectoryFull ==
    (lastCommit.done /\ HasApply(lastCommit.mode) /\ ~viewOpen) =>
        \E n \in 0..Len(lastCommit.queueBefore) :
            /\ QueuedIds(n) \subseteq emittedDir
            /\ \A i \in (n + 1)..Len(lastCommit.queueBefore) :
                   lastCommit.queueBefore[i].id \notin emittedDir
            /\ emittedTxn = SubSeq(lastCommit.queueBefore, n + 1, Len(lastCommit.queueBefore))
            /\ n < Len(lastCommit.queueBefore) =>
                   Cardinality(lastCommit.emittedBefore \cup QueuedIds(n)) >= EmittedDirCap
            /\ lastCommit.emittedBefore \ {otxn.id} \subseteq emittedDir

\* the append failed for the second of two queued transactions
C27_Witness ==
    /\ lastCommit.done
    /\ HasApply(lastCommit.mode)
    /\ ~viewOpen
    /\ Len(lastCommit.queueBefore) = 2
    /\ lastCommit.queueBefore[1].id \in emittedDir
    /\ lastCommit.queueBefore[2].id \notin emittedDir
    /\ Len(emittedTxn) = 1

(***************************************************************************)
(* Descent and release of slots, checked under SpecSlotTree.               *)
(***************************************************************************)
\* the step is a slot_subfield or slot_subarray call
DescentStep == lastCall'.fn \in {"slot_subfield", "slot_subarray"}

\* C30: a slot_subfield or slot_subarray call that returns a negative code,
\* also one called with new_slot = 0, leaves the slot table, the free queue
\* and the slot counter as they were before the call.
C30_FailedDescentNoEffect ==
    [][(DescentStep /\ lastCall'.ret < 0) => UNCHANGED slotVars]_vars

\* slot_subarray with new_slot = 0 failed on the index of an array that a
\* slot could have been allocated for
C30_Witness ==
    /\ lastCall.fn = "slot_subarray"
    /\ lastCall.ret = DOESNT_EXIST
    /\ lastCall.a = 0
    /\ lastCall.b \in DOMAIN slot
    /\ slot[lastCall.b].entry = "array"
    /\ ~no_free_slots(slot_counter, slot_free)

\* the step takes slot p away from under its sub-slots: slot_clear(p), or a
\* descent of p in place
ParentStep(p) ==
    \/ lastCall'.fn = "slot_clear" /\ lastCall'.ret = 1 /\ lastCall'.a = p
    \/ DescentStep /\ lastCall'.ret = p /\ lastCall'.b = p

\* slot c holds the identifier and the stored object of slot p
SharesObject(c, p) == slot[c].id = slot[p].id /\ slot[c].storage = slot[p].storage

\* C29: a slot created by slot_subfield or slot_subarray into a slot other
\* than its parent holds the parent's identifier and its own handle on the
\* parent's stored object; after slot_clear(parent) or a descent of the parent
\* in place the sub-slot still exists, slot_id on it returns the parent's
\* identifier and slot on it serializes the same node.
C29_SubSlotsShareOwnership ==
    [][/\ (DescentStep /\ lastCall'.ret > 0 /\ lastCall'.ret # lastCall'.b) =>
              /\ slot'[lastCall'.ret].id = slot[lastCall'.b].id
              /\ slot'[lastCall'.ret].storage = slot[lastCall'.b].storage
              /\ slot'[lastCall'.ret].storage \in {"otxn", "sle", "htx"}
       /\ \A p \in DOMAIN slot : ParentStep(p) =>
              \A c \in DOMAIN slot \ {p} : SharesObject(c, p) =>
                  /\ c \in DOMAIN slot'
                  /\ slot_id_calc(slot', InPtr, 34, c) =
                         [ret |-> Len(slot[p].id), out |-> slot[p].id]
                  /\ slot_calc(slot', InPtr, 34, c) = slot_calc(slot, InPtr, 34, c)
                  /\ slot_calc(slot', InPtr, 34, c).ret > 0]_vars

\* slot 1 was cleared after slot 2 had been made its sub-slot on sfMemos
C29_Witness ==
    /\ lastCall.fn = "slot_clear"
    /\ lastCall.ret = 1
    /\ lastCall.a = 1
    /\ slot_counter = 3
    /\ DOMAIN slot = {2}
    /\ slot[2].entry = "array"

\* the calls that put a slot into the table
SlotSetters == {"slot_set", "otxn_slot", "slot_subfield", "slot_subarray"}

\* every call that reads slot n of the table finds no slot
ReadsFindNothing(table, n) ==
    /\ slot_calc(table, InPtr, 34, n).ret = DOESNT_EXIST
    /\ slot_calc(table, 0, 0, n).ret = DOESNT_EXIST
    /\ slot_size_calc(table, n) = DOESNT_EXIST
    /\ slot_id_calc(table, InPtr, 34, n).ret = DOESNT_EXIST
    /\ slot_count_calc(table, n) = DOESNT_EXIST
    /\ \A flags \in 0..2 : slot_type_calc(table, n, flags) = DOESNT_EXIST

\* C28: slot_clear(n) on an occupied slot removes it and appends n to the
\* free queue; slot, slot_size, slot_id, slot_count and slot_type on n return
\* DOESNT_EXIST until a call sets n again; allocations with into = 0 hand out
\* the freed ids oldest first before any value of the counter; slot_clear on
\* an unoccupied slot returns DOESNT_EXIST and changes nothing.
C28_SlotClear ==
    [][/\ lastCall'.fn = "slot_clear" =>
              IF lastCall'.a \in DOMAIN slot
              THEN /\ lastCall'.ret = 1
                   /\ slot' = Drop(slot, lastCall'.a)
                   /\ slot_free' = Append(slot_free, lastCall'.a)
                   /\ ReadsFindNothing(slot', lastCall'.a)
              ELSE lastCall'.ret = DOESNT_EXIST /\ UNCHANGED slotVars
       /\ \A n \in 1..(max_slots + 1) :
              /\ (n \notin DOMAIN slot /\ n \notin DOMAIN slot') => ReadsFindNothing(slot', n)
              /\ (n \notin DOMAIN slot /\ n \in DOMAIN slot') =>
                     lastCall'.fn \in SlotSetters /\ lastCall'.ret = n
       /\ (lastCall'.fn \in SlotSetters /\ lastCall'.a = 0 /\ lastCall'.ret > 0) =>
              IF Len(slot_free) > 0
              THEN /\ lastCall'.ret = Head(slot_free)
                   /\ slot_free' = Tail(slot_free)
                   /\ slot_counter' = slot_counter
              ELSE /\ lastCall'.ret = slot_counter
                   /\ slot_counter' = slot_counter + 1]_vars

\* slots 1 and 2 were released in this order and an allocation has handed
\* out slot 1, leaving slot 2 in the queue
C28_Witness ==
    /\ lastCall.fn \in SlotSetters
    /\ lastCall.a = 0
    /\ lastCall.ret = 1
    /\ slot_free = <<2>>
    /\ slot_counter >= 3
    /\ 1 \in DOMAIN slot

(***************************************************************************)
(* The execution-metadata record, checked under SpecCommit.                *)
(***************************************************************************)
\* the last commit wrote a metadata record
MetaWritten == lastCommit.done /\ Len(hookMeta) > lastCommit.metaBefore

\* C32: the hook-hash field of the metadata record a commit writes is the
\* hook's content hash, the value hook_hash returns, and no other identifier
\* of the context.
C32_MetaHookHash ==
    MetaWritten =>
        /\ hook_hash_calc(InPtr, 32).ret = 32
        /\ Uint256Bytes(hookMeta[Len(hookMeta)].HookHash) = hook_hash_calc(InPtr, 32).out

\* the ids the last commit put into the emitted directory
NewlyInserted ==
    {lastCommit.queueBefore[i].id : i \in 1..Len(lastCommit.queueBefore)}
        \cap (emittedDir \ lastCommit.emittedBefore)

\* C33: the emit count of the metadata record equals the number of emitted
\* transactions the same commit inserted into the emitted directory, also
\* when the insertion stopped on a full directory or an id was present.
C33_RecordedEmitCount ==
    MetaWritten => hookMeta[Len(hookMeta)].HookEmitCount = Cardinality(NewlyInserted)

\* the same, for the commits that emptied the queue
C33_RecordedEmitCount_QueueEmptied ==
    (MetaWritten /\ emittedTxn = << >>) =>
        hookMeta[Len(hookMeta)].HookEmitCount = Cardinality(NewlyInserted)

(***************************************************************************)
(* The state count of the hook object, checked under SpecReserveOk.        *)
(***************************************************************************)
\* C34: after any sequence of state creations, updates and deletions that
\* were written to the ledger, the state count stored on the hook object
\* equals the number of state entries that exist for the account.
C34_StateCountConsistency == hookStateCount = Cardinality(DOMAIN hookStates)

\* the stored count never exceeds the number of entries
C34_StateCountAtMostEntries == hookStateCount <= Cardinality(DOMAIN hookStates)

(***************************************************************************)
(* Loading into a slot, checked under SpecSlotTree.                        *)
(***************************************************************************)
\* slot n holds the object slot_set loads for a key of read_len bytes
HoldsLoaded(table, n, read_len) ==
    LET loaded == SlotEntry([i \in 1..read_len |-> 0],
                            IF read_len = 34 THEN "sle" ELSE "htx", "object")
    IN  /\ n \in DOMAIN table
        /\ slot_id_calc(table, InPtr, 34, n) = [ret |-> read_len, out |-> loaded.id]
        /\ slot_calc(table, InPtr, 34, n) =
               [ret |-> Len(Serialized(loaded)), out |-> Serialized(loaded)]

\* C35: whenever slot_set(k, into) returns a slot id n >= 1, slot n holds the
\* object loaded for k: slot_id(n) returns k and slot(n) serializes that
\* object, whether n was empty or occupied before the call and whether into
\* was n or 0.
C35_SlotBinding ==
    (lastCall.fn = "slot_set" /\ lastCall.ret >= 1) =>
        HoldsLoaded(slot, lastCall.ret, lastCall.b)

\* the same, for the calls that return a slot that was empty
C35_SlotBinding_EmptySlot ==
    [][(lastCall'.fn = "slot_set" /\ lastCall'.ret >= 1 /\ lastCall'.ret \notin DOMAIN slot)
          => HoldsLoaded(slot', lastCall'.ret, lastCall'.b)]_vars

(***************************************************************************)
(* The fee threshold and the nonces of emit, checked under SpecEmitRules.  *)
(***************************************************************************)
\* C36: for a given invocation and a candidate of n bytes the least Fee emit
\* accepts is the same whether or not etxn_fee_base was called before and
\* whether the emit is the first or a later one: at every point of the run
\* it is what it is for a context that has not computed a fee base yet.
C36_FeeThresholdHistoryIndependent ==
    (pc = "running" /\ expected_etxn_count >= 0) =>
        EmitMinFee(TxLen, expected_etxn_count, fee_base) =
            EmitMinFee(TxLen, expected_etxn_count, 0)

\* C37: within one invocation no two emitted transactions carry the same
\* EmitDetails nonce: a nonce that passed emit's check once is not accepted
\* for a second, different transaction.
C37_NoncesSingleUse ==
    \A i, j \in 1..Len(emittedTxn) :
        emittedTxn[i].id # emittedTxn[j].id => emittedTxn[i].nonce # emittedTxn[j].nonce

\* every emitted transaction carries a nonce that nonce or etxn_details issued
C37_NoncesIssued ==
    \A i \in 1..Len(emittedTxn) : emittedTxn[i].nonce \in nonce_used

(***************************************************************************)
(* Exit calls that fail, checked under SpecExit.                           *)
(***************************************************************************)
\* the step is an accept or rollback call whose non-zero reason pointer
\* fails the bounds test
ExitOutOfBounds ==
    /\ lastCall'.fn \in {"accept", "rollback"}
    /\ lastCall'.a # 0
    /\ NOT_IN_BOUNDS(lastCall'.a, Len(lastCall'.out), MemoryLength)

\* C38: an accept or rollback call whose non-zero reason pointer fails the
\* bounds test returns OUT_OF_BOUNDS, does not end the run, and leaves the
\* exit type, exit code and exit reason as they were.
C38_FailedExitNoEffect ==
    [][ExitOutOfBounds =>
          /\ lastCall'.ret = OUT_OF_BOUNDS
          /\ pc' = "running"
          /\ UNCHANGED <<exitType, exitCode, exitReason>>]_vars

\* an exit call failed on its reason pointer with an exit code other than
\* the stored one, and the run goes on
C38_Witness ==
    /\ lastCall.fn \in {"accept", "rollback"}
    /\ lastCall.ret = OUT_OF_BOUNDS
    /\ lastCall.a # 0
    /\ lastCall.b # exitCode
    /\ pc = "running"

(***************************************************************************)
(* Signs of float_set, checked under SpecFloat.                            *)
(***************************************************************************)
\* the last call was float_set on a negative mantissa whose magnitude, with
\* the same exponent, float_set turns into a valid float
NegativeOfValid ==
    /\ lastCall.fn = "float_set"
    /\ lastCall.b.neg
    /\ lastCall.b.m.d # 0
    /\ float_set_calc(lastCall.a, FALSE, lastCall.b.m).err = 0

\* C39: when float_set on (e, m) with m > 0 returns a valid float f,
\* float_set on (e, -m) returns float_negate(f): the same mantissa and
\* exponent with the negative sign.
C39_FloatSetSignSymmetry ==
    NegativeOfValid =>
        /\ lastCall.ret = 0
        /\ lastCall.out = float_negate_calc(float_set_calc(lastCall.a, FALSE, lastCall.b.m).f).f

\* float_set on a negative mantissa never returns a float
C39_NegativeMantissaRefused ==
    (lastCall.fn = "float_set" /\ lastCall.b.neg /\ lastCall.b.m.d # 0)
        => lastCall.ret = INVALID_FLOAT

(***************************************************************************)
(* Division, checked under SpecFloat.                                      *)
(***************************************************************************)
\* the value of float_one as a division returns it
DivOne == DivFloat(FALSE, -15, ManDigits(Man(1, 15)))

\* the last call divided a valid non-zero float by itself, or inverted
\* float_one
DividedBySelf ==
    /\ lastCall.fn \in {"float_divide", "float_invert"}
    /\ lastCall.a = lastCall.b
    /\ lastCall.a # FloatZero
    /\ ~IsInvalidFloat(lastCall.a)

\* C40: float_divide(f, f) returns the value of float_one (mantissa 10^15,
\* exponent -15, positive) for every valid non-zero float f, and
\* float_invert(float_one) returns float_one.
C40_DivideBySelfIsOne ==
    DividedBySelf => (lastCall.ret = 0 /\ lastCall.out = DivOne)

\* a valid non-zero float divided by itself gives a positive float within
\* two units of the sixteenth digit of one
C40_DivideBySelfNearOne ==
    DividedBySelf =>
        /\ lastCall.ret = 0
        /\ lastCall.out.sign = 1
        /\ \/ /\ lastCall.out.e = -15 + ExponentBias
              /\ SubSeq(lastCall.out.digits, 1, 15) = SubSeq(ManDigits(Man(1, 15)), 1, 15)
              /\ lastCall.out.digits[16] <= 2
           \/ /\ lastCall.out.e = -16 + ExponentBias
              /\ lastCall.out.digits = [i \in 1..16 |-> IF i = 16 THEN 0 ELSE 9]

(***************************************************************************)
(* etxn_details and emit, checked under SpecEmitRules.                     *)
(***************************************************************************)
\* EmitDetails objects a guest can present
DetailsValues ==
    [gen : 0..3, bur : 0..(2 * MaxQueue), ptxn : {PlainOtxn.id, EmittedOtxn.id},
     nonce : 0..MaxNonces, cb : {HookAccount, OtherAccount}]

\* the object an etxn_details call of this state writes around the nonce n
WrittenDetails(n) == EmitDetailsOf(otxn, expected_etxn_count, n)

\* the step is an etxn_details call that wrote its object
DetailsStep == lastCall'.fn = "etxn_details" /\ lastCall'.ret = etxn_details_size

\* C31: once etxn_reserve has succeeded, a successful etxn_details call
\* issues one new nonce, records it as used, and writes an EmitDetails
\* object that emit's check of Generation,
\* Burden, ParentTxnID, Nonce and Callback accepts; a written object that
\* the check accepts stays accepted for the rest of the invocation,
\* whatever calls follow.
C31_DetailsAgreeWithEmit ==
    [][/\ DetailsStep =>
             /\ lastCall'.out.nonce \notin nonce_used
             /\ nonce_used' = nonce_used \cup {lastCall'.out.nonce}
             /\ lastCall'.out \in DetailsValues
             /\ EmitDetailsCheck(lastCall'.out, otxn', expected_etxn_count', nonce_used')
       /\ (expected_etxn_count > -1 /\ pc' = "running") =>
             \A n \in nonce_used :
                 EmitDetailsCheck(WrittenDetails(n), otxn, expected_etxn_count, nonce_used)
                     => EmitDetailsCheck(WrittenDetails(n), otxn', expected_etxn_count',
                                         nonce_used')]_vars

\* etxn_details wrote an object that emit accepts, after an earlier nonce was
\* issued and a transaction queued
C31_Witness ==
    /\ lastCall.fn = "etxn_details"
    /\ lastCall.ret = etxn_details_size
    /\ lastCall.out.nonce > 0
    /\ EmitDetailsCheck(lastCall.out, otxn, expected_etxn_count, nonce_used)
    /\ Len(emittedTxn) > 0
    /\ pc = "running"

\* a transaction was queued that carries the object an earlier etxn_details
\* call wrote, a later nonce having been issued in between
C31_WitnessEmitted ==
    /\ lastCall.fn = "emit"
    /\ lastCall.ret > 0
    /\ lastCall.out.nonce + 1 < nonce_counter

====
